---- MODULE Spec2Model ----
(***************************************************************************)
(* lssensors: discovery of sensor objects on the bus, natural ordering of  *)
(* their object paths (CmpSensorsName), the one-shot table listing         *)
(* (printSensorData) and the watch loop (watch_senors).                    *)
(*                                                                         *)
(* Strings are sequences of character codes, so that rfind, substr and the *)
(* comparator's cursor arithmetic are computed, not assumed.               *)
(***************************************************************************)
EXTENDS Integers, Sequences, FiniteSets, TLC

VARIABLES
    \* the comparator under test: two identifiers and the result
    cmpPc, cmpA, cmpB, cmpRes,
    \* main(): position, parsed options, the discovered Objects map
    pc, watch_mode, watch_list, objects, exitStatus,
    \* watch_senors(): resolved endpoints and the cursor of the current tick
    sensors, cur,
    \* the listing loop of main() and the static typeName of printSensorData
    li, typeName,
    \* what the process has done: bus calls, stdout and stderr, in order (in
    \* watch mode: since the start of the current tick), whether any GetAll was
    \* ever issued, and the number of completed ticks (saturating)
    out, anyGetAll, ticks,
    \* class Properties under test: a reading and the row fields computed
    \* from it
    fmtPc, reading, row,
    \* main(), option parsing: the options as getopt_long returns them, the
    \* operands left at argv[optind], the number of options consumed, and the
    \* locals the switch sets
    args, operands, optind, showhelp, cli_mode, watch_interval,
    \* the root path of the GetSubTree call (empty until it is built)
    root_path

cmpVars == <<cmpPc, cmpA, cmpB, cmpRes>>
progVars == <<pc, watch_mode, watch_list, objects, exitStatus, sensors, cur,
              li, typeName, out, anyGetAll, ticks>>
fmtVars == <<fmtPc, reading, row>>
optVars == <<args, operands, optind, showhelp, cli_mode, watch_interval,
             root_path>>
vars == <<cmpVars, progVars, fmtVars, optVars>>

----------------------------------------------------------------------------
(* Bounds *)

\* longest identifier enumerated for the comparator
MaxLen == 3
\* most object paths in one discovery reply
MaxSensors == 3
\* most names in the watch list
MaxNames == 2
\* completed ticks are counted up to this number
MaxTicks == 1
\* the Scale of a drawn reading is an exponent from -MaxExp to MaxExp
MaxExp == 3
\* most options on one command line
MaxOpts == 3

----------------------------------------------------------------------------
(* Characters and strings *)

\* '/' : the path separator
SLASH == 47
\* '0' and '9' : the digit range tested by the comparator
CHR_0 == 48
CHR_9 == 57

\* characters used to build identifiers: '/' (below the digits), '0' '1' '2',
\* 'a' (above the digits)
Alphabet == {47, 48, 49, 50, 97}

RECURSIVE StringsUpTo(_)
StringsUpTo(n) ==
    IF n = 0 THEN {<<>>}
    ELSE LET shorter == StringsUpTo(n - 1)
         IN  shorter \cup {Append(s, c) : s \in {t \in shorter : Len(t) = n - 1}, c \in Alphabet}

\* "a" followed by the decimal digits ds
Numbered(ds) == <<97>> \o [k \in 1..Len(ds) |-> CHR_0 + ds[k]]

\* the decimal digits of ULONG_MAX for a 64-bit unsigned long (2^64 - 1);
\* on an ILP32 build the same saturation happens at 4294967295
ULONG_MAX == <<1,8,4,4,6,7,4,4,0,7,3,7,0,9,5,5,1,6,1,5>>

\* identifiers whose digit run is at, just below and just above ULONG_MAX,
\* and one that continues the ULONG_MAX run by a further digit
LongIds ==
    { Numbered(<<1,8,4,4,6,7,4,4,0,7,3,7,0,9,5,5,1,6,1,4>>),
      Numbered(ULONG_MAX),
      Numbered(<<1,8,4,4,6,7,4,4,0,7,3,7,0,9,5,5,1,6,1,6>>),
      Numbered(<<1,8,4,4,6,7,4,4,0,7,3,7,0,9,5,5,1,6,1,7>>),
      Numbered(ULONG_MAX \o <<0>>) }

CmpIds == StringsUpTo(MaxLen) \cup LongIds

----------------------------------------------------------------------------
(* Unsigned long arithmetic on decimal digit sequences.  A value is the     *)
(* sequence of its decimal digits without leading zeros (zero is <<>>), so  *)
(* that 64-bit values are exact.                                            *)

RECURSIVE StripZeros(_)
StripZeros(ds) ==
    IF ds # <<>> /\ ds[1] = 0 THEN StripZeros(Tail(ds)) ELSE ds

RECURSIVE LexLess(_, _)
LexLess(x, y) ==
    IF x = <<>> \/ y = <<>> THEN FALSE
    ELSE IF x[1] # y[1] THEN x[1] < y[1]
    ELSE LexLess(Tail(x), Tail(y))

\* x < y for canonical digit sequences
NumLess(x, y) ==
    \/ Len(x) < Len(y)
    \/ Len(x) = Len(y) /\ LexLess(x, y)

IsDigit(c) == c >= CHR_0 /\ c <= CHR_9

\* index one past the maximal digit run of s that starts at i
RECURSIVE DigitRunEnd(_, _)
DigitRunEnd(s, i) ==
    IF i <= Len(s) /\ IsDigit(s[i]) THEN DigitRunEnd(s, i + 1) ELSE i

\* strtoul(s + i, &end, 10) at a digit position: the value of the maximal
\* digit run, clamped to ULONG_MAX on overflow, and the cursor after the run
strtoul(s, i) ==
    LET e  == DigitRunEnd(s, i)
        ds == StripZeros([k \in 1..(e - i) |-> s[i + k - 1] - CHR_0])
    IN  [val |-> IF NumLess(ULONG_MAX, ds) THEN ULONG_MAX ELSE ds, end |-> e]

----------------------------------------------------------------------------
(* CmpSensorsName *)

\* CmpFrom with the end-of-name test answering "a has ended"
RECURSIVE CmpFrom_EndOfA(_, _, _, _)
CmpFrom_EndOfA(a, b, i, j) ==
    IF i > Len(a) \/ j > Len(b)
    THEN i > Len(a)
    ELSE LET chrA   == a[i]
             chrB   == b[j]
             isNumA == IsDigit(chrA)
             isNumB == IsDigit(chrB)
         IN  IF isNumA /\ isNumB
             THEN LET ra == strtoul(a, i)
                      rb == strtoul(b, j)
                  IN  IF ra.val # rb.val
                      THEN NumLess(ra.val, rb.val)
                      ELSE CmpFrom_EndOfA(a, b, ra.end, rb.end)
             ELSE IF isNumA \/ isNumB
             THEN isNumA
             ELSE IF chrA # chrB
                  THEN chrA < chrB
                  ELSE CmpFrom_EndOfA(a, b, i + 1, j + 1)

\* CmpFrom with the end of a string decided for the longer side (return !!chrA)
RECURSIVE CmpFrom_LongerFirst(_, _, _, _)
CmpFrom_LongerFirst(a, b, i, j) ==
    IF i > Len(a) \/ j > Len(b)
    THEN i <= Len(a)
    ELSE LET chrA   == a[i]
             chrB   == b[j]
             isNumA == IsDigit(chrA)
             isNumB == IsDigit(chrB)
         IN  IF isNumA /\ isNumB
             THEN LET ra == strtoul(a, i)
                      rb == strtoul(b, j)
                  IN  IF ra.val # rb.val
                      THEN NumLess(ra.val, rb.val)
                      ELSE CmpFrom_LongerFirst(a, b, ra.end, rb.end)
             ELSE IF isNumA \/ isNumB
             THEN isNumA
             ELSE IF chrA # chrB
                  THEN chrA < chrB
                  ELSE CmpFrom_LongerFirst(a, b, i + 1, j + 1)

\* CmpFrom with the one-sided digit sorted last (return isNumB)
RECURSIVE CmpFrom_DigitLast(_, _, _, _)
CmpFrom_DigitLast(a, b, i, j) ==
    IF i > Len(a) \/ j > Len(b)
    THEN j <= Len(b)
    ELSE LET chrA   == a[i]
             chrB   == b[j]
             isNumA == IsDigit(chrA)
             isNumB == IsDigit(chrB)
         IN  IF isNumA /\ isNumB
             THEN LET ra == strtoul(a, i)
                      rb == strtoul(b, j)
                  IN  IF ra.val # rb.val
                      THEN NumLess(ra.val, rb.val)
                      ELSE CmpFrom_DigitLast(a, b, ra.end, rb.end)
             ELSE IF isNumA \/ isNumB
             THEN isNumB
             ELSE IF chrA # chrB
                  THEN chrA < chrB
                  ELSE CmpFrom_DigitLast(a, b, i + 1, j + 1)

\* the comparison of a from position i with b from position j
RECURSIVE CmpFrom(_, _, _, _)
CmpFrom(a, b, i, j) ==
    IF i > Len(a) \/ j > Len(b)
    THEN j <= Len(b)
    ELSE LET chrA   == a[i]
             chrB   == b[j]
             isNumA == IsDigit(chrA)
             isNumB == IsDigit(chrB)
         IN  IF isNumA /\ isNumB
             THEN LET ra == strtoul(a, i)
                      rb == strtoul(b, j)
                  IN  IF ra.val # rb.val
                      THEN NumLess(ra.val, rb.val)
                      ELSE CmpFrom(a, b, ra.end, rb.end)
             ELSE IF isNumA \/ isNumB
             THEN isNumA
             ELSE IF chrA # chrB
                  THEN chrA < chrB
                  ELSE CmpFrom(a, b, i + 1, j + 1)

CmpSensorsName(a, b) == CmpFrom(a, b, 1, 1)

\* keys a std::map ordered by CmpSensorsName treats as the same key
PathEquiv(a, b) == ~CmpSensorsName(a, b) /\ ~CmpSensorsName(b, a)

\* the earlier revision, cmp_sensors_name of part_000, deciding the end of a
\* name for the longer side (return chrA)
RECURSIVE cmp_sensors_name_LongerFirst(_, _, _, _)
cmp_sensors_name_LongerFirst(a, b, i, j) ==
    IF i > Len(a) \/ j > Len(b)
    THEN i <= Len(a)
    ELSE LET chrA   == a[i]
             chrB   == b[j]
             isNumA == IsDigit(chrA)
             isNumB == IsDigit(chrB)
         IN  IF isNumA /\ isNumB
             THEN LET ra == strtoul(a, i)
                      rb == strtoul(b, j)
                  IN  IF ra.val # rb.val
                      THEN NumLess(ra.val, rb.val)
                      ELSE cmp_sensors_name_LongerFirst(a, b, ra.end, rb.end)
             ELSE IF isNumA # isNumB
             THEN isNumB
             ELSE IF chrA # chrB
                  THEN chrA < chrB
                  ELSE cmp_sensors_name_LongerFirst(a, b, i + 1, j + 1)

\* the earlier revision, cmp_sensors_name of part_000, from position i of a
\* and position j of b: as CmpFrom, but `isNumA ^ isNumB` returns isNumB
RECURSIVE cmp_sensors_name_from(_, _, _, _)
cmp_sensors_name_from(a, b, i, j) ==
    IF i > Len(a) \/ j > Len(b)
    THEN j <= Len(b)
    ELSE LET chrA   == a[i]
             chrB   == b[j]
             isNumA == IsDigit(chrA)
             isNumB == IsDigit(chrB)
         IN  IF isNumA /\ isNumB
             THEN LET ra == strtoul(a, i)
                      rb == strtoul(b, j)
                  IN  IF ra.val # rb.val
                      THEN NumLess(ra.val, rb.val)
                      ELSE cmp_sensors_name_from(a, b, ra.end, rb.end)
             ELSE IF isNumA # isNumB
             THEN isNumB
             ELSE IF chrA # chrB
                  THEN chrA < chrB
                  ELSE cmp_sensors_name_from(a, b, i + 1, j + 1)

cmp_sensors_name(a, b) == cmp_sensors_name_from(a, b, 1, 1)

----------------------------------------------------------------------------
(* std::string operations on character sequences.  Positions are 1-based;  *)
(* std::string::npos is position 0, so that npos + 1 is the first          *)
(* character, as it is in the unsigned arithmetic of the program.          *)

\* s.rfind(c, pos): the last position <= limit holding c, npos if none
RECURSIVE RFindUpTo(_, _, _)
RFindUpTo(s, c, limit) ==
    IF limit < 1 THEN 0
    ELSE IF limit <= Len(s) /\ s[limit] = c THEN limit
    ELSE RFindUpTo(s, c, IF limit > Len(s) THEN Len(s) ELSE limit - 1)

\* s.rfind(c)
RFind(s, c) == RFindUpTo(s, c, Len(s))

\* s.substr(pos): from the character after position p to the end
SubstrFrom(s, p) == SubSeq(s, p + 1, Len(s))

\* s.substr(pos, count) with the character after position p first; a count
\* that wrapped below zero (size_t) takes the rest of the string
SubstrCount(s, p, count) ==
    IF count < 0 \/ p + count > Len(s) THEN SubSeq(s, p + 1, Len(s))
    ELSE SubSeq(s, p + 1, p + count)

\* std::less<std::string>: lexicographic by character code
RECURSIVE StrLess(_, _)
StrLess(x, y) ==
    IF y = <<>> THEN FALSE
    ELSE IF x = <<>> THEN TRUE
    ELSE IF x[1] # y[1] THEN x[1] < y[1]
    ELSE StrLess(Tail(x), Tail(y))

----------------------------------------------------------------------------
(* class Properties: a reading is a function from property names to        *)
(* variant values [t |-> "int64", v], [t |-> "double", nan, v],            *)
(* [t |-> "bool", v] or [t |-> "string", v].  A double is held as a whole  *)
(* number of ten-thousandths.                                              *)

\* the text "N/A"
NA == <<78, 47, 65>>
DOT == 46
TAB == 9

Abs(n) == IF n < 0 THEN -n ELSE n

RECURSIVE Pow10(_)
Pow10(e) == IF e <= 0 THEN 1 ELSE 10 * Pow10(e - 1)

\* the decimal digits of n >= 0
RECURSIVE DecDigits(_)
DecDigits(n) ==
    IF n < 10 THEN <<CHR_0 + n>>
    ELSE Append(DecDigits(n \div 10), CHR_0 + (n % 10))

\* field width 7 of "%7..." : pad with spaces on the left
PadLeft7(s) ==
    IF Len(s) >= 7 THEN s ELSE [k \in 1..(7 - Len(s)) |-> 32] \o s

\* snprintf(ret.data(), ret.size(), ...) with ret.size() = 8: at most seven
\* characters are stored before the terminating NUL
Snprintf8(s) == SubSeq(s, 1, IF Len(s) < 7 THEN Len(s) ELSE 7)

\* "%7.03f" of the number num / den (den > 0), rounded to three decimals
Fmt7_03f(num, den) ==
    LET m == 1000 * (Abs(num) \div den) + (2000 * (Abs(num) % den) + den) \div (2 * den)
        f == m % 1000
    IN  PadLeft7((IF num < 0 THEN <<45>> ELSE <<>>)
                 \o DecDigits(m \div 1000) \o <<DOT>>
                 \o <<CHR_0 + (f \div 100), CHR_0 + ((f \div 10) % 10), CHR_0 + (f % 10)>>)

\* "%7d"
Fmt7d(n) == PadLeft7((IF n < 0 THEN <<45>> ELSE <<>>) \o DecDigits(Abs(n)))

\* (int)x for x = num / den: truncation toward zero
IntCast(num, den) == IF num < 0 THEN -(Abs(num) \div den) ELSE num \div den

functional(p) ==
    LET ret == IF "Functional" \in DOMAIN p /\ p["Functional"].v = FALSE
               THEN "FAIL" ELSE "OK"
    IN  IF "Available" \in DOMAIN p /\ p["Available"].v = FALSE
        THEN "N/A" ELSE ret

getBool(p, name) == IF name \in DOMAIN p THEN p[name].v ELSE FALSE

\* status() with the alarm flags looked at before Available and Functional
status_AlarmsFirst(p) ==
    IF getBool(p, "FatalAlarmHigh") THEN "Fatal"
    ELSE IF getBool(p, "CriticalAlarmLow") \/ getBool(p, "CriticalAlarmHigh")
         THEN "Critical"
    ELSE IF getBool(p, "WarningAlarmLow") \/ getBool(p, "WarningAlarmHigh")
         THEN "Warning"
    ELSE functional(p)

status(p) ==
    LET ret == functional(p)
    IN  IF ret # "OK" THEN ret
        ELSE IF getBool(p, "FatalAlarmHigh") THEN "Fatal"
        ELSE IF getBool(p, "CriticalAlarmLow") \/ getBool(p, "CriticalAlarmHigh")
             THEN "Critical"
        ELSE IF getBool(p, "WarningAlarmLow") \/ getBool(p, "WarningAlarmHigh")
             THEN "Warning"
        ELSE "OK"

\* the exponent e of the factor powf(10, Scale) = 10^e; 1.f is 10^0
scale(p) == IF "Scale" \in DOMAIN p THEN p["Scale"].v ELSE 0

\* getValue() choosing the format by the magnitude of the scaled value, for
\* both encodings
getValue_ByMagnitude(p, name) ==
    IF name \notin DOMAIN p THEN NA
    ELSE IF p[name].t = "double"
    THEN IF p[name].nan THEN NA
         ELSE IF Abs(p[name].v) < 1000 * 10000
              THEN Snprintf8(Fmt7_03f(p[name].v, 10000))
              ELSE Snprintf8(Fmt7d(IntCast(p[name].v, 10000)))
    ELSE LET e == scale(p)
             value == p[name].v
         IN  IF e < 0
             THEN IF Abs(value) < 1000 * Pow10(-e)
                  THEN Snprintf8(Fmt7_03f(value, Pow10(-e)))
                  ELSE Snprintf8(Fmt7d(IntCast(value, Pow10(-e))))
             ELSE IF Abs(value * Pow10(e)) < 1000
                  THEN Snprintf8(Fmt7_03f(value * Pow10(e), 1))
                  ELSE Snprintf8(Fmt7d(IntCast(value * Pow10(e), 1)))

\* getValue() leaving the zero-filled buffer for an absent key
getValue_MissingEmpty(p, name) ==
    IF name \notin DOMAIN p THEN <<>>
    ELSE IF p[name].t = "double"
    THEN IF p[name].nan THEN NA
         ELSE IF p[name].v < 1000 * 10000
              THEN Snprintf8(Fmt7_03f(p[name].v, 10000))
              ELSE Snprintf8(Fmt7d(IntCast(p[name].v, 10000)))
    ELSE LET e == scale(p)
             value == p[name].v
         IN  IF e < 0
             THEN Snprintf8(Fmt7_03f(value, Pow10(-e)))
             ELSE Snprintf8(Fmt7d(IntCast(value * Pow10(e), 1)))

\* the C string left in ret
getValue(p, name) ==
    IF name \notin DOMAIN p THEN NA
    ELSE IF p[name].t = "double"
    THEN IF p[name].nan THEN NA
         ELSE IF p[name].v < 1000 * 10000
              THEN Snprintf8(Fmt7_03f(p[name].v, 10000))
              ELSE Snprintf8(Fmt7d(IntCast(p[name].v, 10000)))
    ELSE LET e == scale(p)
             value == p[name].v
         IN  IF e < 0
             THEN Snprintf8(Fmt7_03f(value, Pow10(-e)))
             ELSE Snprintf8(Fmt7d(IntCast(value * Pow10(e), 1)))

\* value() suppressed whenever the status is not OK
value_StatusGated(p) == IF status(p) # "OK" THEN NA ELSE getValue(p, "Value")

value(p) == IF functional(p) # "OK" THEN NA ELSE getValue(p, "Value")
criticalLow(p) == getValue(p, "CriticalLow")
criticalHigh(p) == getValue(p, "CriticalHigh")
warningLow(p) == getValue(p, "WarningLow")
warningHigh(p) == getValue(p, "WarningHigh")
fatalHigh(p) == getValue(p, "FatalHigh")

\* Volts -> "V", DegreesC -> "(deg)C ", Amperes -> "A", RPMS -> "RPM", Watts -> "W", Joules -> "J", Meters -> "m", Percent -> "%"
UnitTable ==
    { <<<<86, 111, 108, 116, 115>>, <<86>>>>,
      <<<<68, 101, 103, 114, 101, 101, 115, 67>>, <<194, 176, 67, 32>>>>,
      <<<<65, 109, 112, 101, 114, 101, 115>>, <<65>>>>,
      <<<<82, 80, 77, 83>>, <<82, 80, 77>>>>,
      <<<<87, 97, 116, 116, 115>>, <<87>>>>,
      <<<<74, 111, 117, 108, 101, 115>>, <<74>>>>,
      <<<<77, 101, 116, 101, 114, 115>>, <<109>>>>,
      <<<<80, 101, 114, 99, 101, 110, 116>>, <<37>>>> }

\* unit() looking the whole Unit string up, without name.substr(rfind + 1)
unit_NoStrip(p) ==
    IF "Unit" \notin DOMAIN p THEN <<>>
    ELSE LET name == p["Unit"].v
         IN  IF \E u \in UnitTable : u[1] = name
             THEN (CHOOSE u \in UnitTable : u[1] = name)[2]
             ELSE name

unit(p) ==
    IF "Unit" \notin DOMAIN p THEN <<>>
    ELSE LET name == SubstrFrom(p["Unit"].v, RFind(p["Unit"].v, DOT))
         IN  IF \E u \in UnitTable : u[1] = name
             THEN (CHOOSE u \in UnitTable : u[1] = name)[2]
             ELSE name

----------------------------------------------------------------------------
(* class Properties and the row of print_sensor_data in the earlier        *)
(* revision, part_000: every numeric field is an int64 mantissa            *)

\* field width 8 of "%8..."
PadLeft8(str) ==
    IF Len(str) >= 8 THEN str ELSE [k \in 1..(8 - Len(str)) |-> 32] \o str

\* snprintf(ret.data(), ret.size(), ...) with ret.size() = 9
Snprintf9(str) == SubSeq(str, 1, IF Len(str) < 8 THEN Len(str) ELSE 8)

\* "%8.03f" of num / den and "%8d": the texts of "%7.03f" and "%7d" without
\* their padding, padded to eight
RECURSIVE Unpadded(_)
Unpadded(str) == IF str # <<>> /\ str[1] = 32 THEN Unpadded(Tail(str)) ELSE str
Fmt8_03f(num, den) == PadLeft8(Unpadded(Fmt7_03f(num, den)))
Fmt8d(n) == PadLeft8(Unpadded(Fmt7d(n)))

get_prop_value(p, name) ==
    IF name \notin DOMAIN p THEN NA
    ELSE LET e == scale(p)
             mantissa == p[name].v
         IN  IF e < 0
             THEN Snprintf9(Fmt8_03f(mantissa, Pow10(-e)))
             ELSE Snprintf9(Fmt8d(IntCast(mantissa * Pow10(e), 1)))

\* the accessors as part_000 has them
old_criticalLow(p) == get_prop_value(p, "CriticalLow")
old_criticalHigh(p) == get_prop_value(p, "CriticalHigh")
old_warningLow(p) == get_prop_value(p, "CriticalLow")
old_warningHigh(p) == get_prop_value(p, "CriticalHigh")

\* the threshold columns of a row of print_sensor_data, under the headers
\* "LC", "UC", "LNC", "UNC" it prints above them
print_sensor_data(p) ==
    [lc |-> old_criticalLow(p), uc |-> old_criticalHigh(p),
     lnc |-> old_warningLow(p), unc |-> old_warningHigh(p)]

----------------------------------------------------------------------------
(* Comparator specification: two identifiers are drawn and compared *)

\* SENSORS_PATH, "/xyz/openbmc_project/sensors"
SENSORS_PATH ==
    <<47, 120, 121, 122, 47, 111, 112, 101, 110, 98, 109, 99, 95, 112, 114,
      111, 106, 101, 99, 116, 47, 115, 101, 110, 115, 111, 114, 115>>

ProgIdle ==
    /\ pc = "idle"
    /\ watch_mode = FALSE
    /\ watch_list = <<>>
    /\ objects = <<>>
    /\ exitStatus = -1
    /\ sensors = <<>>
    /\ cur = 0
    /\ li = 0
    /\ typeName = <<>>
    /\ out = <<>>
    /\ anyGetAll = FALSE
    /\ ticks = 0

CmpIdle ==
    /\ cmpPc = "idle"
    /\ cmpA = <<>>
    /\ cmpB = <<>>
    /\ cmpRes = FALSE

FmtIdle ==
    /\ fmtPc = "idle"
    /\ reading = <<>>
    /\ row = <<>>

\* the options are parsed: watch_interval is positive, showhelp is false,
\* no sensor type was given
OptIdle ==
    /\ args = <<>>
    /\ operands = <<>>
    /\ optind = 0
    /\ showhelp = FALSE
    /\ cli_mode = FALSE
    /\ watch_interval = 1
    /\ root_path = SENSORS_PATH

CmpInit ==
    /\ cmpPc = "input"
    /\ cmpA \in CmpIds
    /\ cmpB \in CmpIds
    /\ cmpRes = FALSE
    /\ ProgIdle
    /\ FmtIdle
    /\ OptIdle

Compare ==
    /\ cmpPc = "input"
    /\ cmpRes' = CmpSensorsName(cmpA, cmpB)
    /\ cmpPc' = "done"
    /\ UNCHANGED <<cmpA, cmpB, progVars, fmtVars, optVars>>

CmpNext == Compare

SpecCmp == CmpInit /\ [][CmpNext]_vars

----------------------------------------------------------------------------
(* Properties specification: a reading is drawn and the fields of its row  *)
(* are computed as printSensorData computes them                           *)

BoolVal(b) == [t |-> "bool", v |-> b]
IntVal(n) == [t |-> "int64", v |-> n]
\* a double, given as a whole number of ten-thousandths
DblVal(n) == [t |-> "double", nan |-> FALSE, v |-> n]
NaNVal == [t |-> "double", nan |-> TRUE, v |-> 0]
StrVal(str) == [t |-> "string", v |-> str]

\* all maps from a subset of the names to the values
PartialMaps(names, values) == UNION {[D -> values] : D \in SUBSET names}

FlagNames ==
    {"Available", "Functional", "FatalAlarmHigh", "CriticalAlarmLow",
     "CriticalAlarmHigh", "WarningAlarmLow", "WarningAlarmHigh"}
ThresholdNames ==
    {"CriticalLow", "CriticalHigh", "WarningLow", "WarningHigh", "FatalHigh"}

\* integer mantissas; the wide one is drawn with a Scale of zero or less, so
\* that every product stays an int.  No drawn mantissa and Scale give a
\* product within float rounding error of a third-decimal rounding boundary,
\* so the digits computed here are the digits the float product prints.
Mantissas == {-1500, -7, 0, 7, 999, 1000, 1234, 1500, 12346}
WideMantissa == 12345678
\* doubles (-1500.0, -0.5, 0.0, 12.34, 999.9996, 1000.0, 1500.0, 1500.6,
\* 2000.0), in ten-thousandths
Doubles ==
    {-15000000, -5000, 0, 123400, 9999996, 10000000, 15000000, 15006000,
     20000000}

ValueParts ==
    {<<>>} \cup {"Value" :> IntVal(n) : n \in Mantissas \cup {WideMantissa}}
           \cup {"Value" :> DblVal(n) : n \in Doubles}
           \cup {"Value" :> NaNVal}
ScaleParts == {<<>>} \cup {"Scale" :> IntVal(e) : e \in (-MaxExp)..MaxExp}
AvailFuncParts == PartialMaps({"Available", "Functional"}, {BoolVal(TRUE), BoolVal(FALSE)})
AlarmParts ==
    {<<>>} \cup {n :> BoolVal(TRUE) :
                    n \in {"FatalAlarmHigh", "CriticalAlarmLow", "WarningAlarmHigh"}}

\* every combination of present/absent/true/false flags, on a reading with
\* a value
FlagReadings ==
    {f @@ ("Value" :> IntVal(1234)) @@ ("Scale" :> IntVal(-2)) :
        f \in PartialMaps(FlagNames, {BoolVal(TRUE), BoolVal(FALSE)})}

\* every Value encoding under every Scale
ValueScaleParts ==
    {xs \in {x @@ c : x \in ValueParts, c \in ScaleParts} :
        ~(/\ "Value" \in DOMAIN xs
          /\ xs["Value"] = IntVal(WideMantissa)
          /\ "Scale" \in DOMAIN xs
          /\ xs["Scale"].v > 0)}
ValueReadings ==
    {f @@ a @@ xs : f \in AvailFuncParts, a \in AlarmParts, xs \in ValueScaleParts}

\* every subset of the thresholds present
ThresholdReadings ==
    {f @@ th @@ x @@ sc :
        f \in AvailFuncParts,
        th \in UNION {PartialMaps(ThresholdNames, {tv}) :
                        tv \in {IntVal(1234), IntVal(-7), DblVal(15000000), NaNVal}},
        x \in {<<>>, "Value" :> IntVal(1234)},
        sc \in {<<>>, "Scale" :> IntVal(-2)}}

\* Unit strings: a known or unknown token behind no, one or two qualifiers
UnitTokens ==
    {u[1] : u \in UnitTable}
        \cup {<<>>, <<70, 111, 111>>, <<118, 111, 108, 116, 115>>,
              <<86, 111, 108, 116, 115, 50>>}
UnitQualifiers ==
    {<<>>, <<85, 110, 105, 116, DOT>>, <<97, DOT, 85, 110, 105, 116, DOT>>}
UnitReadings ==
    {("Value" :> IntVal(7))}
        \cup {("Unit" :> StrVal(q \o tok)) @@ ("Value" :> IntVal(7)) :
                 q \in UnitQualifiers, tok \in UnitTokens}

FmtReadings == FlagReadings \cup ValueReadings \cup ThresholdReadings \cup UnitReadings

FmtInit ==
    /\ fmtPc = "input"
    /\ reading \in FmtReadings
    /\ row = <<>>
    /\ ProgIdle
    /\ CmpIdle
    /\ OptIdle

\* the arguments of printf(row_fmt, ...) after the name
Format ==
    /\ fmtPc = "input"
    /\ row' = [status |-> status(reading), value |-> value(reading),
               unit |-> unit(reading), lc |-> criticalLow(reading),
               lnc |-> warningLow(reading), unc |-> warningHigh(reading),
               uc |-> criticalHigh(reading), nr |-> fatalHigh(reading)]
    /\ fmtPc' = "done"
    /\ UNCHANGED <<reading, progVars, cmpVars, optVars>>

FmtNext == Format

SpecFmt == FmtInit /\ [][FmtNext]_vars

----------------------------------------------------------------------------
(* The bus: what discovery and property fetches can return *)

EXIT_SUCCESS == 0
EXIT_FAILURE == 1

\* object paths "/f2/a", "/f2/b1", "/f10/a", "/t/b1" and "/f02/a1": in
\* CmpSensorsName order "/f02/a1" lies between "/f2/a" and "/f2/b1", and
\* "/f2/..." precedes "/f10/...", in character order it follows it
PathUniverse ==
    { <<47, 102, 50, 47, 97>>, <<47, 102, 50, 47, 98, 49>>, <<47, 102, 49, 48, 47, 97>>, <<47, 116, 47, 98, 49>>,
      <<47, 102, 48, 50, 47, 97, 49>> }

\* services "A" and "B"
ServiceA == <<65>>
ServiceB == <<66>>

\* the services that can provide a path: "/f10/a" may have two providers
ServiceSets(path) ==
    IF path = <<47, 102, 49, 48, 47, 97>> THEN {{ServiceA}, {ServiceA, ServiceB}} ELSE {{ServiceA}}

\* GetSubTree replies: a set of object paths, each with its set of providers
Replies ==
    UNION { { r \in [ps -> SUBSET {ServiceA, ServiceB}] : \A q \in ps : r[q] \in ServiceSets(q) }
            : ps \in {q \in SUBSET PathUniverse : Cardinality(q) <= MaxSensors} }

\* instance names "a", "b1" and "zz" (no path of the universe ends in "zz")
NameUniverse == { <<97>>, <<98, 49>>, <<122, 122>> }

RECURSIVE SeqsUpTo(_, _)
SeqsUpTo(S, n) ==
    IF n = 0 THEN {<<>>}
    ELSE LET shorter == SeqsUpTo(S, n - 1)
         IN  shorter \cup {Append(q, x) : q \in {t \in shorter : Len(t) = n - 1}, x \in S}

WatchLists == SeqsUpTo(NameUniverse, MaxNames)

\* GetAll replies:
\*   Value = 1234 (int64), Scale = -2, Unit = "Unit.DegreesC"
\*   Value = 1500.0 (double), Functional = true, WarningAlarmHigh = true,
\*       Unit = "Unit.RPMS", CriticalHigh = 2000.0
Readings ==
    { [n \in {"Value", "Scale", "Unit"} |->
          CASE n = "Value" -> [t |-> "int64", v |-> 1234]
            [] n = "Scale" -> [t |-> "int64", v |-> -2]
            [] n = "Unit"  -> [t |-> "string", v |-> <<85, 110, 105, 116, 46, 68, 101, 103, 114, 101, 101, 115, 67>>]],
      [n \in {"Value", "Functional", "WarningAlarmHigh", "Unit", "CriticalHigh"} |->
          CASE n = "Value" -> [t |-> "double", nan |-> FALSE, v |-> 15000000]
            [] n = "Functional" -> [t |-> "bool", v |-> TRUE]
            [] n = "WarningAlarmHigh" -> [t |-> "bool", v |-> TRUE]
            [] n = "Unit" -> [t |-> "string", v |-> <<85, 110, 105, 116, 46, 82, 80, 77, 83>>]
            [] n = "CriticalHigh" -> [t |-> "double", nan |-> FALSE, v |-> 20000000]] }

\* the reply of a call that failed carries no properties
NoProps == [n \in {} |-> 0]

----------------------------------------------------------------------------
(* Objects: std::map<Path, ObjectsMap, CmpSensorsName>, held as the sequence *)
(* of its entries in iteration order                                         *)

\* the entry of a set of entries that the map iterates first
FirstEntry(es) == CHOOSE e \in es : \A o \in es : ~CmpSensorsName(o.path, e.path)

RECURSIVE SortEntries(_)
SortEntries(es) ==
    IF es = {} THEN <<>>
    ELSE LET e == FirstEntry(es) IN <<e>> \o SortEntries(es \ {e})

\* std::map<Service, Interfaces>: services in std::string order
RECURSIVE SortServices(_)
SortServices(ss) ==
    IF ss = {} THEN <<>>
    ELSE LET x == CHOOSE y \in ss : \A o \in ss : ~StrLess(o, y)
         IN  <<x>> \o SortServices(ss \ {x})

\* the maps that reading a reply can produce: the map keeps one entry per
\* class of equivalent keys (the first one read), whichever order the reply
\* lists them in
ObjectsOf(reply) ==
    LET entries == {[path |-> q, services |-> SortServices(reply[q])] : q \in DOMAIN reply}
        keeps == { ks \in SUBSET entries :
                     /\ \A e \in entries : \E x \in ks : PathEquiv(e.path, x.path)
                     /\ \A x, y \in ks : x # y => ~PathEquiv(x.path, y.path) }
    IN  { SortEntries(ks) : ks \in keeps }

----------------------------------------------------------------------------
(* Events *)

Stderr(msg, arg) == [e |-> "stderr", msg |-> msg, arg |-> arg]
GetAll(service, path, ok, reply) ==
    [e |-> "GetAll", service |-> service, path |-> path, ok |-> ok, reply |-> reply]
Printf(text) == [e |-> "printf", text |-> text]
Timestamp == [e |-> "timestamp"]
Newline == [e |-> "newline"]
Sleep == [e |-> "sleep"]
Banner(type) == [e |-> "banner", type |-> type]
Header(cols) == [e |-> "header", cols |-> cols]
Row(name, p) ==
    [e |-> "row", name |-> name, status |-> status(p), value |-> value(p),
     unit |-> unit(p), lc |-> criticalLow(p), lnc |-> warningLow(p),
     unc |-> warningHigh(p), uc |-> criticalHigh(p), nr |-> fatalHigh(p)]

----------------------------------------------------------------------------
(* main(), after the options are parsed *)

Init ==
    /\ pc = "GetSubTree"
    /\ watch_mode \in BOOLEAN
    /\ watch_list \in (IF watch_mode THEN WatchLists ELSE {<<>>})
    /\ objects = <<>>
    /\ exitStatus = -1
    /\ sensors = <<>>
    /\ cur = 0
    /\ li = 0
    /\ typeName = <<>>
    /\ out = <<>>
    /\ anyGetAll = FALSE
    /\ ticks = 0
    /\ CmpIdle
    /\ FmtIdle
    /\ OptIdle

Exit(code) ==
    /\ pc' = "exit"
    /\ exitStatus' = code

\* Discover with a catch block that reports the error and goes on with the
\* empty map
Discover_ErrorContinues ==
    /\ pc = "GetSubTree"
    /\ \/ /\ out' = out \o <<Stderr("No sensors of selected type are present", <<>>),
                             Stderr("usage", <<>>)>>
          /\ Exit(EXIT_FAILURE)
          /\ UNCHANGED <<objects, li>>
       \/ /\ out' = Append(out, Stderr("Error", <<>>))
          /\ objects' = <<>>
          /\ pc' = IF watch_mode THEN "watch_senors" ELSE "list"
          /\ li' = 1
          /\ UNCHANGED exitStatus
       \/ \E reply \in Replies :
            /\ objects' \in ObjectsOf(reply)
            /\ pc' = IF watch_mode THEN "watch_senors" ELSE "list"
            /\ li' = 1
            /\ UNCHANGED <<out, exitStatus>>
    /\ UNCHANGED <<watch_mode, watch_list, sensors, cur, typeName, anyGetAll, ticks, cmpVars, fmtVars, optVars>>

\* systemBus.call(method).read(objects) and its catch block
Discover ==
    /\ pc = "GetSubTree"
    /\ \/ /\ out' = out \o <<Stderr("No sensors of selected type are present", <<>>),
                             Stderr("usage", <<>>)>>
          /\ Exit(EXIT_FAILURE)
          /\ UNCHANGED <<objects, li>>
       \/ /\ out' = Append(out, Stderr("Error", <<>>))
          /\ Exit(EXIT_FAILURE)
          /\ UNCHANGED <<objects, li>>
       \/ \E reply \in Replies :
            /\ objects' \in ObjectsOf(reply)
            /\ pc' = IF watch_mode THEN "watch_senors" ELSE "list"
            /\ li' = 1
            /\ UNCHANGED <<out, exitStatus>>
    /\ UNCHANGED <<watch_mode, watch_list, sensors, cur, typeName, anyGetAll, ticks, cmpVars, fmtVars, optVars>>

----------------------------------------------------------------------------
(* watch_senors() *)

\* one (service, path) pair per provider of obj, in the map's order
ObjEndpoints(obj) ==
    [n \in 1..Len(obj.services) |-> [service |-> obj.services[n], path |-> obj.path]]

\* the (service, path) pairs in the order of main()'s nested loops
RECURSIVE Flatten(_)
Flatten(objs) ==
    IF objs = <<>> THEN <<>> ELSE ObjEndpoints(Head(objs)) \o Flatten(Tail(objs))

\* MatchFrom with found never false
RECURSIVE MatchFrom_FoundAlways(_, _, _)
MatchFrom_FoundAlways(name, objs, n) ==
    IF n > Len(objs) THEN [found |-> TRUE, sensors |-> <<>>]
    ELSE LET obj      == objs[n]
             name_pos == RFind(obj.path, SLASH)
             hit      == name = SubstrFrom(obj.path, name_pos)
             rest     == MatchFrom_FoundAlways(name, objs, n + 1)
         IN  [found   |-> TRUE,
              sensors |-> (IF hit THEN ObjEndpoints(obj) ELSE <<>>) \o rest.sensors]

\* the inner loop over objects for one name, from entry n on: whether the
\* name was found and the pairs emplaced
RECURSIVE MatchFrom(_, _, _)
MatchFrom(name, objs, n) ==
    IF n > Len(objs) THEN [found |-> FALSE, sensors |-> <<>>]
    ELSE LET obj      == objs[n]
             name_pos == RFind(obj.path, SLASH)
             hit      == name = SubstrFrom(obj.path, name_pos)
             rest     == MatchFrom(name, objs, n + 1)
         IN  [found   |-> hit \/ rest.found,
              sensors |-> (IF hit THEN ObjEndpoints(obj) ELSE <<>>) \o rest.sensors]

\* ResolveFrom looping over the objects first and looking each one up in the
\* names: the endpoints come out in the order of the map
ResolveFrom_ObjectOrder(names, n, objs, acc) ==
    LET missing == {k \in n..Len(names) : ~MatchFrom(names[k], objs, 1).found}
    IN  IF missing # {}
        THEN [found |-> FALSE,
              name |-> names[CHOOSE k \in missing : \A m \in missing : k <= m],
              sensors |-> acc]
        ELSE [found |-> TRUE, name |-> <<>>,
              sensors |-> acc \o SelectSeq(Flatten(objs),
                  LAMBDA ep : \E k \in n..Len(names) :
                      names[k] = SubstrFrom(ep.path, RFind(ep.path, SLASH)))]

\* the outer loop over watch_list from name n on, with acc emplaced so far
RECURSIVE ResolveFrom(_, _, _, _)
ResolveFrom(names, n, objs, acc) ==
    IF n > Len(names) THEN [found |-> TRUE, name |-> <<>>, sensors |-> acc]
    ELSE LET m == MatchFrom(names[n], objs, 1)
         IN  IF ~m.found
             THEN [found |-> FALSE, name |-> names[n], sensors |-> acc \o m.sensors]
             ELSE ResolveFrom(names, n + 1, objs, acc \o m.sensors)

\* the resolution loops
Resolve ==
    /\ pc = "watch_senors"
    /\ LET r == ResolveFrom(watch_list, 1, objects, <<>>)
       IN  /\ sensors' = r.sensors
           /\ IF ~r.found
              THEN /\ out' = Append(out, Stderr("Failed to find sensor", r.name))
                   /\ Exit(EXIT_FAILURE)
              ELSE /\ pc' = "loop"
                   /\ UNCHANGED <<out, exitStatus>>
    /\ UNCHANGED <<watch_mode, watch_list, objects, cur, li, typeName, anyGetAll, ticks, cmpVars, fmtVars, optVars>>

\* the head of while (true): the timestamp is printed
TickBegin ==
    /\ pc = "loop"
    /\ out' = <<Timestamp>>
    /\ cur' = 1
    /\ pc' = IF sensors = <<>> THEN "endline" ELSE "GetAll"
    /\ UNCHANGED <<watch_mode, watch_list, objects, exitStatus, sensors, li, typeName,
                   anyGetAll, ticks, cmpVars, fmtVars, optVars>>

\* Fetch that reports a failed GetAll and goes on with the next endpoint
Fetch_SkipFailed ==
    /\ pc = "GetAll"
    /\ anyGetAll' = TRUE
    /\ cur' = cur + 1
    /\ pc' = IF cur = Len(sensors) THEN "endline" ELSE "GetAll"
    /\ LET s == sensors[cur]
       IN  \/ out' = out \o <<GetAll(s.service, s.path, FALSE, NoProps),
                              Stderr("Get properties failed", s.path)>>
           \/ \E props \in Readings :
                out' = out \o <<GetAll(s.service, s.path, TRUE, props),
                                Printf(<<TAB>> \o value(props))>>
    /\ UNCHANGED <<watch_mode, watch_list, objects, exitStatus, sensors, li, typeName,
                   ticks, cmpVars, fmtVars, optVars>>

\* Fetch that prints the reading of the previous endpoint of the tick
Fetch_StaleReading ==
    /\ pc = "GetAll"
    /\ anyGetAll' = TRUE
    /\ LET s == sensors[cur]
       IN  \/ /\ out' = out \o <<GetAll(s.service, s.path, FALSE, NoProps),
                                 Stderr("Get properties failed", s.path)>>
              /\ Exit(EXIT_FAILURE)
              /\ UNCHANGED cur
           \/ \E props \in Readings :
                /\ out' = out \o <<GetAll(s.service, s.path, TRUE, props),
                                   Printf(<<TAB>> \o value(IF cur > 1
                                                          THEN out[Len(out) - 1].reply
                                                          ELSE props))>>
                /\ cur' = cur + 1
                /\ pc' = IF cur = Len(sensors) THEN "endline" ELSE "GetAll"
                /\ UNCHANGED exitStatus
    /\ UNCHANGED <<watch_mode, watch_list, objects, sensors, li, typeName, ticks, cmpVars, fmtVars, optVars>>

\* one iteration of the loop over sensors: GetAll, then either the error
\* return or the value
Fetch ==
    /\ pc = "GetAll"
    /\ anyGetAll' = TRUE
    /\ LET s == sensors[cur]
       IN  \/ /\ out' = out \o <<GetAll(s.service, s.path, FALSE, NoProps),
                                 Stderr("Get properties failed", s.path)>>
              /\ Exit(EXIT_FAILURE)
              /\ UNCHANGED cur
           \/ \E props \in Readings :
                /\ out' = out \o <<GetAll(s.service, s.path, TRUE, props),
                                   Printf(<<TAB>> \o value(props))>>
                /\ cur' = cur + 1
                /\ pc' = IF cur = Len(sensors) THEN "endline" ELSE "GetAll"
                /\ UNCHANGED exitStatus
    /\ UNCHANGED <<watch_mode, watch_list, objects, sensors, li, typeName, ticks, cmpVars, fmtVars, optVars>>

\* EndLine that leaves the loop and reaches return EXIT_SUCCESS
EndLine_Return ==
    /\ pc = "endline"
    /\ out' = out \o <<Newline, Sleep>>
    /\ ticks' = IF ticks < MaxTicks THEN ticks + 1 ELSE ticks
    /\ Exit(EXIT_SUCCESS)
    /\ UNCHANGED <<watch_mode, watch_list, objects, sensors, cur, li, typeName,
                   anyGetAll, cmpVars, fmtVars, optVars>>

\* printf("\n"); sleep(watch_interval);
EndLine ==
    /\ pc = "endline"
    /\ out' = out \o <<Newline, Sleep>>
    /\ ticks' = IF ticks < MaxTicks THEN ticks + 1 ELSE ticks
    /\ pc' = "loop"
    /\ UNCHANGED <<watch_mode, watch_list, objects, exitStatus, sensors, cur, li, typeName,
                   anyGetAll, cmpVars, fmtVars, optVars>>

----------------------------------------------------------------------------
(* The one-shot listing: the loops of main() and printSensorData() *)

HeaderCols == <<"Name", "Status", "Value", "Unit", "LC", "LNC", "UNC", "UC", "NR">>

\* "%-19.19s": at most 19 characters of the name
RowName(name) == SubSeq(name, 1, IF Len(name) < 19 THEN Len(name) ELSE 19)

\* path.rfind('/', name_pos - 1): the search limit, where name_pos - 1 wraps
\* to the end of the string when name_pos is 0 or npos
FolderLimit(path, name_pos) == IF name_pos >= 2 THEN name_pos - 1 ELSE Len(path)

\* path.substr(folder_pos + 1, name_pos - folder_pos - 1)
CurrentType(path) ==
    LET name_pos   == RFind(path, SLASH)
        folder_pos == RFindUpTo(path, SLASH, FolderLimit(path, name_pos))
    IN  SubstrCount(path, folder_pos, name_pos - folder_pos - 1)

\* Rendered without the test !typeName.empty()
Rendered_SeparatorAlways(tn, path, props) ==
    LET currentType == CurrentType(path)
        group == IF tn # currentType
                 THEN <<Newline, Banner(currentType), Header(HeaderCols), Newline>>
                 ELSE <<>>
    IN  group \o <<Row(RowName(SubstrFrom(path, RFind(path, SLASH))), props)>>

\* what printSensorData prints for a reading, given the static typeName
Rendered(tn, path, props) ==
    LET currentType == CurrentType(path)
        group == IF tn # currentType
                 THEN (IF tn # <<>> THEN <<Newline>> ELSE <<>>)
                      \o <<Banner(currentType), Header(HeaderCols), Newline>>
                 ELSE <<>>
    IN  group \o <<Row(RowName(SubstrFrom(path, RFind(path, SLASH))), props)>>

\* printSensorData whose failed fetch ends the process with EXIT_FAILURE
printSensorData_Fatal ==
    /\ pc = "list"
    /\ li <= Len(Flatten(objects))
    /\ anyGetAll' = TRUE
    /\ li' = li + 1
    /\ LET s == Flatten(objects)[li]
       IN  \/ /\ out' = out \o <<GetAll(s.service, s.path, FALSE, NoProps),
                                 Stderr("Get properties failed", s.path)>>
              /\ Exit(EXIT_FAILURE)
              /\ UNCHANGED typeName
           \/ \E props \in Readings :
                /\ out' = out \o <<GetAll(s.service, s.path, TRUE, props)>>
                              \o Rendered(typeName, s.path, props)
                /\ typeName' = CurrentType(s.path)
                /\ UNCHANGED <<pc, exitStatus>>
    /\ UNCHANGED <<watch_mode, watch_list, objects, sensors, cur, ticks, cmpVars, fmtVars, optVars>>

\* one call of printSensorData from the loops of main()
printSensorData ==
    /\ pc = "list"
    /\ li <= Len(Flatten(objects))
    /\ anyGetAll' = TRUE
    /\ li' = li + 1
    /\ LET s == Flatten(objects)[li]
       IN  \/ /\ out' = out \o <<GetAll(s.service, s.path, FALSE, NoProps),
                                 Stderr("Get properties failed", s.path)>>
              /\ UNCHANGED typeName
           \/ \E props \in Readings :
                /\ out' = out \o <<GetAll(s.service, s.path, TRUE, props)>>
                              \o Rendered(typeName, s.path, props)
                /\ typeName' = CurrentType(s.path)
    /\ UNCHANGED <<pc, watch_mode, watch_list, objects, exitStatus, sensors, cur, ticks, cmpVars, fmtVars, optVars>>

\* return EXIT_SUCCESS at the end of main()
MainReturn ==
    /\ pc = "list"
    /\ li > Len(Flatten(objects))
    /\ Exit(EXIT_SUCCESS)
    /\ UNCHANGED <<watch_mode, watch_list, objects, sensors, cur, li, typeName, out,
                   anyGetAll, ticks, cmpVars, fmtVars, optVars>>

Next ==
    \/ Discover
    \/ Resolve
    \/ TickBegin
    \/ Fetch
    \/ EndLine
    \/ printSensorData
    \/ MainReturn

Spec == Init /\ [][Next]_vars

----------------------------------------------------------------------------
(* main(), option parsing: the getopt_long loop and the code up to the     *)
(* GetSubTree call                                                         *)

COMMA == 44
MINUS == 45
PLUS == 43

\* the decimal digits of INT_MAX (2^31 - 1)
INT_MAX == <<2, 1, 4, 7, 4, 8, 3, 6, 4, 7>>
\* the magnitude of INT_MIN
INT_MIN_MAG == <<2, 1, 4, 7, 4, 8, 3, 6, 4, 8>>

\* isspace() in the "C" locale
IsSpace(c) == c = 32 \/ (c >= 9 /\ c <= 13)

RECURSIVE SkipSpace(_, _)
SkipSpace(str, i) ==
    IF i <= Len(str) /\ IsSpace(str[i]) THEN SkipSpace(str, i + 1) ELSE i

\* the int of a canonical digit sequence that fits one
RECURSIVE DigitsValue(_)
DigitsValue(ds) ==
    IF ds = <<>> THEN 0
    ELSE 10 * DigitsValue(SubSeq(ds, 1, Len(ds) - 1)) + ds[Len(ds)]

\* std::stoi(str): white space, an optional sign, then the longest run of
\* digits; what follows the run is ignored.  Without a digit it throws
\* std::invalid_argument, out of the range of int std::out_of_range.
stoi(str) ==
    LET i   == SkipSpace(str, 1)
        neg == i <= Len(str) /\ str[i] = MINUS
        j   == IF i <= Len(str) /\ str[i] \in {MINUS, PLUS} THEN i + 1 ELSE i
        e   == DigitRunEnd(str, j)
        ds  == StripZeros([k \in 1..(e - j) |-> str[j + k - 1] - CHR_0])
    IN  IF e = j THEN [ok |-> FALSE, val |-> 0]
        ELSE IF neg /\ ds = INT_MIN_MAG THEN [ok |-> TRUE, val |-> -2147483647 - 1]
        ELSE IF NumLess(INT_MAX, ds) THEN [ok |-> FALSE, val |-> 0]
        ELSE [ok |-> TRUE, val |-> IF neg THEN -DigitsValue(ds) ELSE DigitsValue(ds)]

\* line.find_first_not_of(delim, pos) and line.find(delim, pos) with
\* one-based positions; Len(line) + 1 stands for npos
RECURSIVE FindFirstNotOf(_, _, _)
FindFirstNotOf(line, delim, pos) ==
    IF pos > Len(line) THEN Len(line) + 1
    ELSE IF line[pos] # delim THEN pos
    ELSE FindFirstNotOf(line, delim, pos + 1)
RECURSIVE Find(_, _, _)
Find(line, delim, pos) ==
    IF pos > Len(line) THEN Len(line) + 1
    ELSE IF line[pos] = delim THEN pos
    ELSE Find(line, delim, pos + 1)

\* the while loop of case 'w': the non-empty pieces of line between commas
RECURSIVE SplitFrom(_, _)
SplitFrom(line, end) ==
    LET start == FindFirstNotOf(line, COMMA, end)
    IN  IF start > Len(line) THEN <<>>
        ELSE LET stop == Find(line, COMMA, start)
             IN  <<SubSeq(line, start, stop - 1)>> \o SplitFrom(line, stop)

\* isalnum() in the "C" locale
IsAlnum(c) == IsDigit(c) \/ (c >= 65 /\ c <= 90) \/ (c >= 97 /\ c <= 122)

\* "help"
HELP == <<104, 101, 108, 112>>

\* -w arguments: "a", "a,b1", ",zz,,a"
WatchArgs == {<<97>>, <<97, COMMA, 98, 49>>, <<COMMA, 122, 122, COMMA, COMMA, 97>>}
\* -n arguments: "5", "0", "-3", "abc", "5x", "99999999999"
IntervalArgs ==
    {<<53>>, <<48>>, <<MINUS, 51>>, <<97, 98, 99>>, <<53, 120>>,
     <<57, 57, 57, 57, 57, 57, 57, 57, 57, 57, 57>>}
\* what getopt_long returns: an option character, with optarg for 'w' and
\* 'n'; '?' for an unknown option or a missing argument
Options ==
    {[c |-> "c"], [c |-> "h"], [c |-> "?"]}
        \cup {[c |-> "w", optarg |-> a] : a \in WatchArgs}
        \cup {[c |-> "n", optarg |-> a] : a \in IntervalArgs}
\* the operands: none, "f2", "help", "f-2", "f_2", "", and "f2" "f-2"
OperandLists ==
    {<<>>, <<<<102, 50>>>>, <<HELP>>, <<<<102, MINUS, 50>>>>, <<<<102, 95, 50>>>>,
     <<<<>>>>, <<<<102, 50>>, <<102, MINUS, 50>>>>}

OptInit ==
    /\ pc = "getopt"
    /\ args \in SeqsUpTo(Options, MaxOpts)
    /\ operands \in OperandLists
    /\ optind = 0
    /\ showhelp = FALSE
    /\ cli_mode = FALSE
    /\ watch_mode = FALSE
    /\ watch_list = <<>>
    /\ watch_interval = 1
    /\ root_path = <<>>
    /\ objects = <<>>
    /\ exitStatus = -1
    /\ sensors = <<>>
    /\ cur = 0
    /\ li = 0
    /\ typeName = <<>>
    /\ out = <<>>
    /\ anyGetAll = FALSE
    /\ ticks = 0
    /\ CmpIdle
    /\ FmtIdle

\* one pass of the while loop: getopt_long returns the next option and the
\* switch handles it
GetOptLong ==
    /\ pc = "getopt"
    /\ optind < Len(args)
    /\ optind' = optind + 1
    /\ LET o == args[optind + 1]
       IN  CASE o.c = "c" ->
                  /\ cli_mode' = TRUE
                  /\ UNCHANGED <<watch_mode, watch_list, watch_interval, showhelp, out>>
             [] o.c = "w" ->
                  /\ watch_mode' = TRUE
                  /\ watch_list' = watch_list \o SplitFrom(o.optarg, 1)
                  /\ UNCHANGED <<cli_mode, watch_interval, showhelp, out>>
             [] o.c = "n" ->
                  LET r        == stoi(o.optarg)
                      interval == IF r.ok THEN r.val ELSE watch_interval
                      caught   == IF r.ok THEN <<>>
                                  ELSE <<Stderr("Can't read interval", o.optarg)>>
                      invalid  == IF interval <= 0
                                  THEN <<Stderr("Invalid interval value", interval)>>
                                  ELSE <<>>
                  IN  /\ watch_interval' = interval
                      /\ showhelp' = (showhelp \/ ~r.ok \/ interval <= 0)
                      /\ out' = out \o caught \o invalid
                      /\ UNCHANGED <<cli_mode, watch_mode, watch_list>>
             [] o.c = "h" ->
                  /\ showhelp' = TRUE
                  /\ UNCHANGED <<cli_mode, watch_mode, watch_list, watch_interval, out>>
             [] OTHER ->
                  /\ showhelp' = TRUE
                  /\ out' = Append(out, Stderr("Unknown option found", <<>>))
                  /\ UNCHANGED <<cli_mode, watch_mode, watch_list, watch_interval>>
    /\ UNCHANGED <<pc, exitStatus, args, operands, root_path, objects, sensors,
                   cur, li, typeName, anyGetAll, ticks, cmpVars, fmtVars>>

\* OptionsDone without the check of the sensor type
OptionsDone_NoTypeCheck ==
    /\ pc = "getopt"
    /\ optind = Len(args)
    /\ LET helpWord == cli_mode /\ operands # <<>> /\ operands[1] = HELP
           help     == showhelp \/ helpWord
           rest     == IF helpWord THEN Tail(operands) ELSE operands
       IN  /\ showhelp' = help
           /\ operands' = rest
           /\ IF help
              THEN /\ out' = Append(out, Stderr("usage", <<>>))
                   /\ Exit(EXIT_FAILURE)
                   /\ UNCHANGED root_path
              ELSE /\ pc' = "GetSubTree"
                   /\ root_path' = IF rest # <<>>
                                   THEN SENSORS_PATH \o <<SLASH>> \o rest[1]
                                   ELSE SENSORS_PATH
                   /\ UNCHANGED <<out, exitStatus>>
    /\ UNCHANGED <<args, optind, cli_mode, watch_mode, watch_list, watch_interval,
                   objects, sensors, cur, li, typeName, anyGetAll, ticks,
                   cmpVars, fmtVars>>

\* after the loop: the 'help' word of CLI mode, usage(), and the check of
\* the sensor type at argv[optind]
OptionsDone ==
    /\ pc = "getopt"
    /\ optind = Len(args)
    /\ LET helpWord == cli_mode /\ operands # <<>> /\ operands[1] = HELP
           help     == showhelp \/ helpWord
           rest     == IF helpWord THEN Tail(operands) ELSE operands
       IN  /\ showhelp' = help
           /\ operands' = rest
           /\ IF help
              THEN /\ out' = Append(out, Stderr("usage", <<>>))
                   /\ Exit(EXIT_FAILURE)
                   /\ UNCHANGED root_path
              ELSE IF rest # <<>> /\ \E k \in 1..Len(rest[1]) :
                                       ~IsAlnum(rest[1][k]) /\ rest[1][k] # 95
              THEN /\ out' = Append(out, Stderr("Invalid sensor type is specified!", <<>>))
                   /\ Exit(EXIT_FAILURE)
                   /\ root_path' = SENSORS_PATH
              ELSE /\ pc' = "GetSubTree"
                   /\ root_path' = IF rest # <<>>
                                   THEN SENSORS_PATH \o <<SLASH>> \o rest[1]
                                   ELSE SENSORS_PATH
                   /\ UNCHANGED <<out, exitStatus>>
    /\ UNCHANGED <<args, optind, cli_mode, watch_mode, watch_list, watch_interval,
                   objects, sensors, cur, li, typeName, anyGetAll, ticks,
                   cmpVars, fmtVars>>

OptNext == GetOptLong \/ OptionsDone

SpecOpts == OptInit /\ [][OptNext]_vars

----------------------------------------------------------------------------
(* Properties of the watch mode *)

\* the segments of a path: the maximal runs of characters other than '/'
Slashes(path) == {i \in 1..Len(path) : path[i] = SLASH}
LastSlash(path) == CHOOSE i \in Slashes(path) : \A j \in Slashes(path) : j <= i

\* the instance name: everything after the last '/'
LastSegment(path) ==
    IF Slashes(path) = {} THEN path ELSE SubSeq(path, LastSlash(path) + 1, Len(path))

\* the category: the segment between the last two slashes
Category(path) ==
    LET before == {i \in Slashes(path) : i < LastSlash(path)}
        prev   == CHOOSE i \in before : \A j \in before : j <= i
    IN  SubSeq(path, prev + 1, LastSlash(path) - 1)

Resolves(name, objs) == \E n \in 1..Len(objs) : LastSegment(objs[n].path) = name

UnresolvedAt(n) == n \in 1..Len(watch_list) /\ ~Resolves(watch_list[n], objects)

DiscoveryFailed ==
    \E i \in 1..Len(out) :
        /\ out[i].e = "stderr"
        /\ out[i].msg \in {"Error", "No sensors of selected type are present"}

\* watch_senors has been entered and its resolution loops have run
ResolutionDone ==
    watch_mode /\ pc \notin {"GetSubTree", "watch_senors"} /\ ~DiscoveryFailed

Polling == pc \in {"loop", "GetAll", "endline"}

FailedGetAllAt(i) == i \in 1..Len(out) /\ out[i].e = "GetAll" /\ ~out[i].ok
OkGetAllAt(i) == i \in 1..Len(out) /\ out[i].e = "GetAll" /\ out[i].ok

\* C1: when some name of the watch list is the instance name of no discovered
\* identifier, watch_senors returns EXIT_FAILURE naming the first such name,
\* and no GetAll has been issued at any point.
C1_UnresolvedFailsBeforeAnyFetch ==
    (watch_mode /\ \E n \in 1..Len(watch_list) : UnresolvedAt(n)) =>
        /\ ~anyGetAll
        /\ \A i \in 1..Len(out) : out[i].e # "GetAll"
        /\ ResolutionDone =>
              /\ pc = "exit"
              /\ exitStatus = EXIT_FAILURE
              /\ \E n \in 1..Len(watch_list) :
                    /\ UnresolvedAt(n)
                    /\ \A m \in 1..(n - 1) : ~UnresolvedAt(m)
                    /\ out = <<Stderr("Failed to find sensor", watch_list[n])>>

\* names <<resolved, missing>>: the failure names the second one
C1_Witness ==
    /\ ResolutionDone
    /\ pc = "exit"
    /\ Len(watch_list) = 2
    /\ ~UnresolvedAt(1)
    /\ UnresolvedAt(2)
    /\ out = <<Stderr("Failed to find sensor", watch_list[2])>>

\* the (service, path) pairs of objs whose instance name is name, in the
\* order of the map
EndpointsNamed(name, objs) ==
    SelectSeq(Flatten(objs), LAMBDA ep : LastSegment(ep.path) = name)

RECURSIVE ConcatNamed(_, _)
ConcatNamed(names, objs) ==
    IF names = <<>> THEN <<>>
    ELSE EndpointsNamed(Head(names), objs) \o ConcatNamed(Tail(names), objs)

ObjectsSorted ==
    \A i, j \in 1..Len(objects) :
        i < j => CmpSensorsName(objects[i].path, objects[j].path)

\* the session exists: resolution succeeded
Resolved == ResolutionDone /\ \A n \in 1..Len(watch_list) : ~UnresolvedAt(n)

C2_SessionInv ==
    Resolved =>
        /\ ObjectsSorted
        /\ sensors = ConcatNamed(watch_list, objects)

\* C2: after a successful resolution the endpoint list is the concatenation,
\* over the names in the user's order (duplicates included), of the
\* (provider, identifier) pairs whose last path segment is that name, in the
\* comparator order of the map; no polling step changes it.
C2_SessionKeepsCallerOrder ==
    /\ [](C2_SessionInv)
    /\ [][Resolved => sensors' = sensors]_vars

\* a session whose endpoints are not in comparator order, after a tick
C2_Witness ==
    /\ Resolved
    /\ pc = "loop"
    /\ ticks >= 1
    /\ Len(sensors) >= 3
    /\ \E i, j \in 1..Len(sensors) :
          i < j /\ CmpSensorsName(sensors[j].path, sensors[i].path)

\* C3: in the watch loop a failed fetch ends the session at once:
\* EXIT_FAILURE is returned, the failed GetAll is the last bus call, the
\* cursor still points at the failed endpoint, and nothing happens after it.
C3_FetchFailureAbortsSession ==
    /\ [](\A i \in 1..Len(out) :
            (watch_mode /\ FailedGetAllAt(i)) =>
                /\ pc = "exit"
                /\ exitStatus = EXIT_FAILURE
                /\ \A j \in (i + 1)..Len(out) : out[j].e \notin {"GetAll", "timestamp", "printf"}
                /\ cur <= Len(sensors)
                /\ out[i].path = sensors[cur].path
                /\ out[i].service = sensors[cur].service)
    /\ [][(watch_mode /\ \E i \in 1..Len(out) : FailedGetAllAt(i)) => UNCHANGED vars]_vars

\* the second of at least three endpoints fails on a later tick
C3_Witness ==
    /\ watch_mode
    /\ pc = "exit"
    /\ ticks >= 1
    /\ cur = 2
    /\ Len(sensors) >= 3
    /\ FailedGetAllAt(Len(out) - 1)

IsTableEvent(ev) == ev.e \in {"banner", "header", "row"}

\* C4: watch mode never exits with status 0 and never reaches the listing:
\* while no fetch fails it keeps polling, and every exit is EXIT_FAILURE.
C4_WatchHasNoSuccessfulExit ==
    watch_mode =>
        /\ pc # "list"
        /\ \A i \in 1..Len(out) : ~IsTableEvent(out[i])
        /\ pc = "exit" => exitStatus = EXIT_FAILURE
        /\ pc # "exit" => exitStatus = -1
        /\ Polling => ENABLED (TickBegin \/ Fetch \/ EndLine)

\* the session polled for MaxTicks ticks and then left by a failed fetch
C4_Witness ==
    /\ watch_mode
    /\ pc = "exit"
    /\ ticks = MaxTicks
    /\ anyGetAll
    /\ exitStatus = EXIT_FAILURE

\* the events of a tick up to, not including, endpoint n: the timestamp,
\* then for each endpoint its GetAll and the value of that reply
TickShape(n) ==
    /\ Len(out) >= 1 + 2 * (n - 1)
    /\ out[1] = Timestamp
    /\ \A k \in 1..(n - 1) :
          /\ OkGetAllAt(2 * k)
          /\ out[2 * k].service = sensors[k].service
          /\ out[2 * k].path = sensors[k].path
          /\ out[2 * k + 1] = Printf(<<TAB>> \o value(out[2 * k].reply))

C5_TickInv ==
    /\ (Resolved /\ pc = "GetAll") =>
          /\ cur \in 1..Len(sensors)
          /\ TickShape(cur)
          /\ Len(out) = 1 + 2 * (cur - 1)
    /\ (Resolved /\ pc = "endline") =>
          /\ cur = Len(sensors) + 1
          /\ TickShape(cur)
          /\ Len(out) = 1 + 2 * Len(sensors)
    /\ (Resolved /\ pc = "loop" /\ out # <<>>) =>
          /\ TickShape(Len(sensors) + 1)
          /\ Len(out) = 3 + 2 * Len(sensors)
          /\ out[Len(out) - 1] = Newline
          /\ out[Len(out)] = Sleep

\* C5: every tick is: the timestamp, then for each endpoint in session order
\* one GetAll followed by the value of that very reply, then the newline,
\* then the sleep; the next timestamp comes only after the sleep.
C5_TickOrder ==
    /\ [](C5_TickInv)
    /\ [][(Resolved /\ out' # out /\ out'[1] = Timestamp /\ Len(out') = 1)
            => (pc = "loop" /\ (out = <<>> \/ out[Len(out)] = Sleep))]_vars

\* the MaxTicks-th tick, of at least two endpoints with different values, is
\* complete
C5_Witness ==
    /\ Resolved
    /\ pc = "loop"
    /\ ticks = MaxTicks
    /\ Len(sensors) >= 2
    /\ out[3] # out[5]
    /\ out[Len(out)] = Sleep

----------------------------------------------------------------------------
(* Properties of the one-shot listing *)

IsStdout(ev) == ev.e \in {"banner", "header", "row", "newline", "printf", "timestamp"}
StdoutOf(o) == SelectSeq(o, IsStdout)
\* the paths of the readings that were fetched successfully, in order
RenderedPaths == [k \in 1..Len(SelectSeq(out, LAMBDA ev : ev.e = "GetAll" /\ ev.ok)) |->
                    SelectSeq(out, LAMBDA ev : ev.e = "GetAll" /\ ev.ok)[k].path]
RowsOf(o) == SelectSeq(o, LAMBDA ev : ev.e = "row")
BannersOf(o) == SelectSeq(o, LAMBDA ev : ev.e = "banner")

\* row k starts a maximal run of equal categories
StartsRun(k) ==
    k = 1 \/ Category(RenderedPaths[k]) # Category(RenderedPaths[k - 1])

\* what stdout holds for the first n rendered readings
RECURSIVE ExpectedTable(_)
ExpectedTable(n) ==
    IF n = 0 THEN <<>>
    ELSE ExpectedTable(n - 1)
         \o (IF StartsRun(n)
             THEN (IF n > 1 THEN <<Newline>> ELSE <<>>)
                  \o <<Banner(Category(RenderedPaths[n])), Header(HeaderCols), Newline>>
             ELSE <<>>)
         \o <<RowsOf(out)[n]>>

ListingRan == ~watch_mode /\ pc \in {"list", "exit"} /\ ~DiscoveryFailed

\* C6: a banner (with its header) is printed exactly at the rows whose
\* category differs from that of the previously rendered row, so there is one
\* banner per maximal run of equal categories; each banner but the first is
\* preceded by exactly one blank line, the first by none.
C6_BannerPerCategoryRun ==
    ListingRan =>
        /\ Len(RowsOf(out)) = Len(RenderedPaths)
        /\ StdoutOf(out) = ExpectedTable(Len(RenderedPaths))
        /\ Len(BannersOf(out)) = Cardinality({k \in 1..Len(RenderedPaths) : StartsRun(k)})
        /\ LET so == StdoutOf(out)
           IN  \A i \in 1..Len(so) :
                 so[i].e = "banner" =>
                    \/ i = 1
                    \/ /\ i >= 3
                       /\ so[i - 1] = Newline
                       /\ so[i - 2].e = "row"

\* three rows in two categories: two banners, the second after a run of two
C6_Witness ==
    /\ ListingRan
    /\ pc = "exit"
    /\ Len(RenderedPaths) = 3
    /\ Len(BannersOf(out)) = 2
    /\ ~StartsRun(2)
    /\ StartsRun(3)

\* C7 as stated: once a fetch of the listing fails, nothing more is fetched
\* or rendered and the process exits with a non-zero status.
C7_FetchFailureIsFatal ==
    \A i \in 1..Len(out) :
        (~watch_mode /\ FailedGetAllAt(i)) =>
            /\ \A j \in (i + 1)..Len(out) : out[j].e \notin {"GetAll", "row", "banner"}
            /\ pc = "exit" => exitStatus # EXIT_SUCCESS

\* the events of the listing for endpoint k: a failed GetAll and its message,
\* or a successful GetAll and what is rendered for it
FetchCount == Len(SelectSeq(out, LAMBDA ev : ev.e = "GetAll"))
GetAllIndex(k) ==
    CHOOSE i \in 1..Len(out) :
        /\ out[i].e = "GetAll"
        /\ Len(SelectSeq(SubSeq(out, 1, i), LAMBDA ev : ev.e = "GetAll")) = k

\* C7 amended: a failed fetch of the listing skips that endpoint only: its
\* failure is reported on stderr and no row is rendered for it, every
\* endpoint of the map is still fetched once, in order, each successful
\* fetch is rendered as a row, and the process exits with status 0.
C7_FetchFailureSkipsSensor ==
    ListingRan =>
        /\ FetchCount = li - 1
        /\ \A k \in 1..FetchCount :
              LET i == GetAllIndex(k)
              IN  /\ out[i].path = Flatten(objects)[k].path
                  /\ out[i].service = Flatten(objects)[k].service
                  /\ ~out[i].ok =>
                        /\ out[i + 1] = Stderr("Get properties failed", out[i].path)
                        /\ (i + 2 <= Len(out) => out[i + 2].e = "GetAll")
                  /\ out[i].ok =>
                        \E j \in (i + 1)..Len(out) :
                            /\ out[j].e = "row"
                            /\ \A m \in (i + 1)..(j - 1) : out[m].e \notin {"GetAll", "row"}
        /\ pc = "exit" => (exitStatus = EXIT_SUCCESS /\ FetchCount = Len(Flatten(objects)))
        /\ pc = "list" => exitStatus = -1

\* the first of three endpoints fails, the others are listed, exit status 0
C7_Witness ==
    /\ ListingRan
    /\ pc = "exit"
    /\ exitStatus = EXIT_SUCCESS
    /\ FetchCount = 3
    /\ FailedGetAllAt(1)
    /\ Len(RowsOf(out)) = 2

----------------------------------------------------------------------------
(* Properties of CmpSensorsName *)

\* index of the first character of the maximal trailing digit run of s
\* (Len(s) + 1 when s does not end in a digit)
RECURSIVE TrailStart(_, _)
TrailStart(s, i) ==
    IF i >= 1 /\ IsDigit(s[i]) THEN TrailStart(s, i - 1) ELSE i + 1

SuffixStart(s) == TrailStart(s, Len(s))
SuffixPrefix(s) == SubSeq(s, 1, SuffixStart(s) - 1)
\* the trailing digit run of s as an integer of unbounded width
SuffixValue(s) ==
    StripZeros([k \in 1..(Len(s) - SuffixStart(s) + 1) |-> s[SuffixStart(s) + k - 1] - CHR_0])

\* a and b are a common prefix followed by one trailing digit run each
DifferOnlyInNumericSuffix(a, b) ==
    /\ SuffixStart(a) <= Len(a)
    /\ SuffixStart(b) <= Len(b)
    /\ SuffixPrefix(a) = SuffixPrefix(b)

\* C8: identifiers that share a prefix and differ only in the trailing digit
\* run are ordered by the numeric value of that run: cmp(p+m, p+n) = (m < n).
C8_NumericSuffixOrder ==
    (cmpPc = "done" /\ DifferOnlyInNumericSuffix(cmpA, cmpB))
        => (cmpRes = NumLess(SuffixValue(cmpA), SuffixValue(cmpB)))

\* C8, for digit runs whose value is below ULONG_MAX: the order is numeric.
C8_NumericSuffixOrderInRange ==
    (/\ cmpPc = "done"
     /\ DifferOnlyInNumericSuffix(cmpA, cmpB)
     /\ NumLess(SuffixValue(cmpA), ULONG_MAX)
     /\ NumLess(SuffixValue(cmpB), ULONG_MAX))
        => (cmpRes = NumLess(SuffixValue(cmpA), SuffixValue(cmpB)))

Equiv(a, b) == ~CmpSensorsName(a, b) /\ ~CmpSensorsName(b, a)

\* identifiers over '/', '0', '1', 'a': the third identifier of the
\* transitivity checks ranges over these
SwoIds == {s \in CmpIds : \A k \in 1..Len(s) : s[k] \in {47, 48, 49, 97}}

\* C9: CmpSensorsName is a strict weak ordering: irreflexive, asymmetric,
\* transitive, and incomparability is transitive.
C9_StrictWeakOrdering ==
    (cmpPc = "done" /\ cmpA \in SwoIds /\ cmpB \in SwoIds) =>
        /\ (cmpA = cmpB => ~cmpRes)
        /\ (cmpRes => ~CmpSensorsName(cmpB, cmpA))
        /\ cmpRes =>
              \A c \in SwoIds : CmpSensorsName(cmpB, c) => CmpSensorsName(cmpA, c)
        /\ (~cmpRes /\ ~CmpSensorsName(cmpB, cmpA)) =>
              \A c \in SwoIds : Equiv(cmpB, c) => Equiv(cmpA, c)

\* two distinct incomparable identifiers (leading zeros) and a third one
\* incomparable with both; some identifier sorts below them, and identifiers
\* starting with '/' and with a letter sort above them
C9_Witness ==
    /\ cmpPc = "done"
    /\ cmpA \in SwoIds
    /\ cmpB \in SwoIds
    /\ cmpA # cmpB
    /\ ~cmpRes
    /\ ~CmpSensorsName(cmpB, cmpA)
    /\ \E c \in SwoIds \ {cmpA, cmpB} : Equiv(cmpB, c)
    /\ \E c \in SwoIds : CmpSensorsName(c, cmpA) /\ c # <<>>
    /\ \E c \in SwoIds : CmpSensorsName(cmpA, c) /\ c[1] = SLASH
    /\ \E c \in SwoIds : CmpSensorsName(cmpA, c) /\ c[1] = 97

\* length of the longest common prefix of a and b
RECURSIVE CommonLen(_, _, _)
CommonLen(a, b, k) ==
    IF k < Len(a) /\ k < Len(b) /\ a[k + 1] = b[k + 1]
    THEN CommonLen(a, b, k + 1) ELSE k

\* a and b agree on their first k characters and at k + 1 one has a digit,
\* the other a non-digit character
OneSidedDigitAt(a, b, k) ==
    /\ k = CommonLen(a, b, 0)
    /\ k < Len(a)
    /\ k < Len(b)
    /\ IsDigit(a[k + 1]) # IsDigit(b[k + 1])

\* C10 as stated: wherever the first difference has a digit on exactly one
\* side, the identifier with the digit sorts first.
C10_DigitSideFirst ==
    \A k \in 0..Len(cmpA) :
        (cmpPc = "done" /\ OneSidedDigitAt(cmpA, cmpB, k))
            => (cmpRes = IsDigit(cmpA[k + 1]))

\* C10 amended: the same, when the common prefix does not end in a digit
\* (so that the digit at the position starts a digit run).
C10_DigitSideFirstAtRunStart ==
    \A k \in 0..Len(cmpA) :
        (/\ cmpPc = "done"
         /\ OneSidedDigitAt(cmpA, cmpB, k)
         /\ (k > 0 => ~IsDigit(cmpA[k])))
            => /\ cmpRes = IsDigit(cmpA[k + 1])
               /\ CmpSensorsName(cmpB, cmpA) = IsDigit(cmpB[k + 1])

\* "a/" against "a1": the non-digit is '/', whose code is below '0'
C10_Witness ==
    /\ cmpPc = "done"
    /\ OneSidedDigitAt(cmpA, cmpB, 1)
    /\ cmpA[2] = SLASH
    /\ IsDigit(cmpB[2])
    /\ ~cmpRes

----------------------------------------------------------------------------
(* End of string *)

IsProperPrefix(a, b) == Len(a) < Len(b) /\ SubSeq(b, 1, Len(a)) = a

\* b only continues the final digit run of a by further digits, and the two
\* runs parse to the same unsigned long
SameValueRunExtension(a, b) ==
    /\ IsProperPrefix(a, b)
    /\ SuffixStart(a) <= Len(a)
    /\ \A k \in (Len(a) + 1)..Len(b) : IsDigit(b[k])
    /\ strtoul(a, SuffixStart(a)).val = strtoul(b, SuffixStart(a)).val

----------------------------------------------------------------------------
(* Properties of the row fields *)

Present(p, name) == name \in DOMAIN p
IsFalse(p, name) == Present(p, name) /\ p[name].v = FALSE
IsTrue(p, name) == Present(p, name) /\ p[name].v = TRUE

\* the priority chain of the status column
StatusChain(p) ==
    CASE IsFalse(p, "Available") -> "N/A"
      [] ~IsFalse(p, "Available") /\ IsFalse(p, "Functional") -> "FAIL"
      [] OTHER ->
           IF IsTrue(p, "FatalAlarmHigh") THEN "Fatal"
           ELSE IF IsTrue(p, "CriticalAlarmLow") \/ IsTrue(p, "CriticalAlarmHigh")
                THEN "Critical"
           ELSE IF IsTrue(p, "WarningAlarmLow") \/ IsTrue(p, "WarningAlarmHigh")
                THEN "Warning"
           ELSE "OK"

\* C12: for every combination of present, absent, true and false flags the
\* status is the priority chain N/A, FAIL, Fatal, Critical, Warning, OK, an
\* absent flag counting as not failed and not alarmed.
C12_StatusPriorityChain ==
    (fmtPc = "done") => (row.status = StatusChain(reading))

\* unavailable, not functional and in fatal alarm at once: the status is N/A
C12_Witness ==
    /\ fmtPc = "done"
    /\ IsFalse(reading, "Available")
    /\ IsFalse(reading, "Functional")
    /\ IsTrue(reading, "FatalAlarmHigh")
    /\ ~Present(reading, "CriticalAlarmLow")
    /\ row.status = "N/A"

\* the reading without the named keys
Without(p, names) == [n \in (DOMAIN p) \ names |-> p[n]]

NonFunctional(p) == IsFalse(p, "Available") \/ IsFalse(p, "Functional")

\* the threshold columns of a row
Thresholds(r) == <<r.lc, r.lnc, r.unc, r.uc, r.nr>>
ThresholdsOf(p) ==
    <<criticalLow(p), warningLow(p), warningHigh(p), criticalHigh(p), fatalHigh(p)>>

\* C13: the Value column is the unavailable marker exactly when Available or
\* Functional is false, whatever the raw Value; otherwise it is the formatted
\* raw Value, the one the reading gives without any of its flags, also under
\* an alarm status.  The threshold columns are the same strings whether
\* Available and Functional are true, false or absent.
C13_SuppressionOnlyOfValue ==
    (fmtPc = "done") =>
        /\ NonFunctional(reading) => row.value = NA
        /\ ~NonFunctional(reading) =>
               row.value = getValue(Without(reading, FlagNames), "Value")
        /\ \A f \in AvailFuncParts :
               ThresholdsOf(f @@ Without(reading, {"Available", "Functional"}))
                   = Thresholds(row)

\* a reading that is not functional, with a raw Value and a CriticalLow: the
\* value is suppressed, the threshold is rendered
C13_Witness ==
    /\ fmtPc = "done"
    /\ IsFalse(reading, "Functional")
    /\ ~IsFalse(reading, "Available")
    /\ Present(reading, "Value")
    /\ Present(reading, "CriticalLow")
    /\ row.status = "FAIL"
    /\ row.value = NA
    /\ row.lc # NA

\* the column of the row that shows the named numeric field
Column(r, name) ==
    CASE name = "Value" -> r.value
      [] name = "CriticalLow" -> r.lc
      [] name = "WarningLow" -> r.lnc
      [] name = "WarningHigh" -> r.unc
      [] name = "CriticalHigh" -> r.uc
      [] name = "FatalHigh" -> r.nr

NumericNames == {"Value"} \cup ThresholdNames

\* C14: a numeric field whose key is absent from the reading is rendered as
\* exactly "N/A", whatever the flags, the Scale and the other fields are.
C14_MissingKeyIsNA ==
    (fmtPc = "done") =>
        \A name \in NumericNames :
            ~Present(reading, name) => Column(row, name) = NA

\* a functional reading with a Scale, with some thresholds and without
\* Value and others
C14_Witness ==
    /\ fmtPc = "done"
    /\ row.status = "OK"
    /\ Present(reading, "Scale")
    /\ ~Present(reading, "Value")
    /\ ~Present(reading, "WarningLow")
    /\ Present(reading, "CriticalLow")
    /\ row.value = NA
    /\ row.lnc = NA
    /\ row.lc # NA

----------------------------------------------------------------------------
(* Numeric formats *)

\* the named field is present and is a number
IsNumber(p, name) ==
    Present(p, name) /\ ~(p[name].t = "double" /\ p[name].nan)

\* the scaled value of a numeric field as the fraction num / den: a double
\* as it is, an integer mantissa times 10^Scale
Scaled(p, name) ==
    IF p[name].t = "double" THEN [num |-> p[name].v, den |-> 10000]
    ELSE IF Present(p, "Scale") /\ p["Scale"].v < 0
         THEN [num |-> p[name].v, den |-> Pow10(-p["Scale"].v)]
    ELSE IF Present(p, "Scale")
         THEN [num |-> p[name].v * Pow10(p["Scale"].v), den |-> 1]
    ELSE [num |-> p[name].v, den |-> 1]

MagnitudeBelow1000(x) == Abs(x.num) < 1000 * x.den

\* the text ends in a decimal point and three digits
IsThreeDecimalForm(str) ==
    /\ Len(str) >= 5
    /\ str[Len(str) - 3] = DOT
    /\ \A k \in (Len(str) - 2)..Len(str) : IsDigit(str[k])
\* the text has no decimal point
IsIntegerForm(str) == \A k \in 1..Len(str) : str[k] # DOT

\* the columns that show a number: a present, non-NaN field, and for Value
\* a functional sensor
ShownNumbers(p) ==
    {name \in NumericNames :
        IsNumber(p, name) /\ (name = "Value" => ~NonFunctional(p))}

\* C15 as stated: a number is shown in the three-decimal form when the
\* magnitude of the scaled value is below 1000 and in the integer form
\* otherwise, whichever the encoding.
C15_FormatByMagnitude ==
    (fmtPc = "done") =>
        \A name \in ShownNumbers(reading) :
            IF MagnitudeBelow1000(Scaled(reading, name))
            THEN IsThreeDecimalForm(Column(row, name))
            ELSE IsIntegerForm(Column(row, name))

\* the encoding decides: a double below 1000 (signed) and an integer
\* mantissa with a negative Scale take the three-decimal format
TakesFraction(p, name) ==
    IF p[name].t = "double" THEN p[name].v < 1000 * 10000
    ELSE Present(p, "Scale") /\ p["Scale"].v < 0

\* C15 amended: a double takes the three-decimal format when it is less
\* than 1000 (every negative double included) and the integer format of its
\* integer part otherwise; an integer mantissa takes the three-decimal format
\* of mantissa * 10^Scale when Scale is negative and the integer format of
\* the product otherwise, whatever the magnitude; either text is cut to its
\* first seven characters.
C15_FormatByEncoding ==
    (fmtPc = "done") =>
        \A name \in ShownNumbers(reading) :
            LET x == Scaled(reading, name)
                text == IF TakesFraction(reading, name)
                        THEN Fmt7_03f(x.num, x.den)
                        ELSE Fmt7d(IntCast(x.num, x.den))
            IN  /\ Column(row, name) = SubSeq(text, 1, 7)
                /\ Len(text) <= 7 =>
                      /\ TakesFraction(reading, name)
                            = IsThreeDecimalForm(Column(row, name))
                      /\ TakesFraction(reading, name)
                            = ~IsIntegerForm(Column(row, name))

\* an integer mantissa of magnitude below 1000 without a Scale is shown
\* without a fraction
C15_Witness ==
    /\ fmtPc = "done"
    /\ "Value" \in ShownNumbers(reading)
    /\ reading["Value"].t = "int64"
    /\ ~Present(reading, "Scale")
    /\ MagnitudeBelow1000(Scaled(reading, "Value"))
    /\ reading["Value"].v # 0
    /\ IsIntegerForm(row.value)

\* the integer-encoded fields of a reading that its row shows
ShownMantissas(p) == {name \in ShownNumbers(p) : p[name].t = "int64"}

\* mantissa * 10^Scale written out in full: with three decimals for a
\* negative Scale, as an integer otherwise
ProductText(p, name) ==
    LET x == Scaled(p, name)
    IN  IF x.den > 1 THEN Fmt7_03f(x.num, x.den) ELSE Fmt7d(x.num)

\* C16: an integer-encoded field is shown as mantissa * 10^Scale (factor 1
\* without a Scale), in the three-decimal form for every negative Scale, and
\* the one Scale of the reading applies to Value and to every threshold.
C16_ScaledProductShown ==
    (fmtPc = "done") =>
        \A name \in ShownMantissas(reading) :
            /\ Column(row, name) = ProductText(reading, name)
            /\ (Present(reading, "Scale") /\ reading["Scale"].v < 0)
                  => IsThreeDecimalForm(Column(row, name))

\* C16, for products whose text has at most seven characters
C16_ScaledProductShownWhenFits ==
    (fmtPc = "done") =>
        \A name \in ShownMantissas(reading) :
            Len(ProductText(reading, name)) <= 7 =>
                /\ Column(row, name) = ProductText(reading, name)
                /\ (Present(reading, "Scale") /\ reading["Scale"].v < 0)
                      => IsThreeDecimalForm(Column(row, name))

\* the floating-encoded fields of a reading that its row shows
ShownDoubles(p) == {name \in ShownNumbers(p) : p[name].t = "double"}

\* a non-negative double (in ten-thousandths) rounded to the nearest integer
RoundNearest(n) == (n + 5000) \div 10000

\* the row column is the same under every Scale and without one
ScaleIgnored(p, name) ==
    \A sc \in ScaleParts :
        getValue(sc @@ Without(p, {"Scale"}), name) = getValue(p, name)

\* C17 as stated: a double is shown without regard to Scale, and from 1000
\* on as the integer nearest to it.
C17_DoubleRoundedToNearest ==
    (fmtPc = "done") =>
        \A name \in ShownDoubles(reading) :
            /\ ScaleIgnored(reading, name)
            /\ reading[name].v >= 1000 * 10000
                  => Column(row, name) = Fmt7d(RoundNearest(reading[name].v))

\* C17, with the integer part in place of the nearest integer: a double is
\* shown without regard to Scale, and from 1000 on as its integer part
\* (truncation toward zero), without a fraction, cut to the first seven
\* characters.
C17_DoubleTruncated ==
    (fmtPc = "done") =>
        \A name \in ShownDoubles(reading) :
            /\ ScaleIgnored(reading, name)
            /\ Column(row, name) = getValue(reading, name)
            /\ reading[name].v >= 1000 * 10000
                  => /\ Column(row, name)
                          = SubSeq(Fmt7d(reading[name].v \div 10000), 1, 7)
                     /\ IsIntegerForm(Column(row, name))

----------------------------------------------------------------------------
(* Unit shorthand *)

\* what follows the last '.' of str (all of str when it has none)
RECURSIVE TokenFrom(_, _)
TokenFrom(str, k) ==
    IF k = 0 \/ str[k] = DOT THEN SubSeq(str, k + 1, Len(str))
    ELSE TokenFrom(str, k - 1)
AfterLastDot(str) == TokenFrom(str, Len(str))

\* the degree sign (two bytes) and 'C', padded with spaces
IsDegreeC(str) ==
    /\ Len(str) >= 3
    /\ SubSeq(str, 1, 3) = <<194, 176, 67>>
    /\ \A k \in 4..Len(str) : str[k] = 32

\* C18: the unit column is the token after the last '.' of Unit mapped
\* Volts -> V, DegreesC -> degree-C, Amperes -> A, RPMS -> RPM, Watts -> W,
\* Joules -> J, Meters -> m, Percent -> %; any other token is shown as it
\* is, also when Unit has no '.'; without a Unit the column is empty.
C18_UnitShorthand ==
    (fmtPc = "done") =>
        IF ~Present(reading, "Unit") THEN row.unit = <<>>
        ELSE LET tok == AfterLastDot(reading["Unit"].v)
             IN  CASE tok = <<86, 111, 108, 116, 115>> -> row.unit = <<86>>
                   [] tok = <<68, 101, 103, 114, 101, 101, 115, 67>> -> IsDegreeC(row.unit)
                   [] tok = <<65, 109, 112, 101, 114, 101, 115>> -> row.unit = <<65>>
                   [] tok = <<82, 80, 77, 83>> -> row.unit = <<82, 80, 77>>
                   [] tok = <<87, 97, 116, 116, 115>> -> row.unit = <<87>>
                   [] tok = <<74, 111, 117, 108, 101, 115>> -> row.unit = <<74>>
                   [] tok = <<77, 101, 116, 101, 114, 115>> -> row.unit = <<109>>
                   [] tok = <<80, 101, 114, 99, 101, 110, 116>> -> row.unit = <<37>>
                   [] OTHER -> row.unit = tok

\* "a.Unit.DegreesC": the token behind two qualifiers is mapped
C18_Witness ==
    /\ fmtPc = "done"
    /\ Present(reading, "Unit")
    /\ Len(reading["Unit"].v) = 15
    /\ reading["Unit"].v[2] = DOT
    /\ reading["Unit"].v[7] = DOT
    /\ IsDegreeC(row.unit)

----------------------------------------------------------------------------
(* Option parsing *)

\* str is wholly a decimal number greater than zero
IsPositiveInteger(str) ==
    /\ str # <<>>
    /\ \A k \in 1..Len(str) : IsDigit(str[k])
    /\ \E k \in 1..Len(str) : str[k] # CHR_0

IntervalOptions == {k \in 1..Len(args) : args[k].c = "n"}

UsageError ==
    /\ pc = "exit"
    /\ exitStatus = EXIT_FAILURE
    /\ out # <<>>
    /\ out[Len(out)] = Stderr("usage", <<>>)

\* C19: when the argument of any interval option is not a positive integer
\* (zero, negative, or not wholly numeric, as "abc" or "5x"), the run ends
\* in a usage error and never gets to discovery, also when a later interval
\* option is valid.
C19_BadIntervalIsUsageError ==
    (\E k \in IntervalOptions : ~IsPositiveInteger(args[k].optarg))
        => /\ pc # "GetSubTree"
           /\ pc = "exit" => UsageError

\* C19, for what std::stoi rejects: when the argument of any interval option
\* does not begin with a number, or the number is zero, negative or out of
\* the range of int, the run ends in a usage error and never gets to
\* discovery, also when a later interval option is valid.
C19_RejectedIntervalIsUsageError ==
    (\E k \in IntervalOptions :
        ~stoi(args[k].optarg).ok \/ stoi(args[k].optarg).val <= 0)
        => /\ pc # "GetSubTree"
           /\ pc = "exit" => UsageError

----------------------------------------------------------------------------
(* Discovery failures *)

NoObjectsMessage == Stderr("No sensors of selected type are present", <<>>)
TransportMessage == Stderr("Error", <<>>)
UsageText == Stderr("usage", <<>>)

\* C20: a failed discovery ends the run with EXIT_FAILURE, in one-shot and
\* in watch mode, with no GetAll issued and no row printed; the failure "no
\* matching objects" is reported with its own message followed by the usage
\* text, every other failure with "Error: <message>" and nothing more.
C20_DiscoveryFailureEndsRun ==
    DiscoveryFailed =>
        /\ pc = "exit"
        /\ exitStatus = EXIT_FAILURE
        /\ ~anyGetAll
        /\ objects = <<>>
        /\ out \in {<<NoObjectsMessage, UsageText>>, <<TransportMessage>>}

\* a watch run whose discovery found no matching objects
C20_Witness ==
    /\ watch_mode
    /\ watch_list # <<>>
    /\ pc = "exit"
    /\ exitStatus = EXIT_FAILURE
    /\ out = <<NoObjectsMessage, UsageText>>

----------------------------------------------------------------------------
(* The sensor type *)

\* letters, digits and '_'
TypeChars == (48..57) \cup (65..90) \cup (97..122) \cup {95}

\* the sensor type argument that main() looks at: the first operand, once
\* the 'help' word of CLI mode is taken off
HasBadType ==
    /\ operands # <<>>
    /\ \E k \in 1..Len(operands[1]) : operands[1][k] \notin TypeChars

\* C21: when the sensor type has a character that is not a letter, a digit
\* or '_', the run never gets to the GetSubTree call, issues no GetAll and
\* every exit is a failure; at the GetSubTree call the root path is the
\* sensors root, with '/' and the sensor type behind it when one was given.
C21_TypeCheckedBeforeBus ==
    /\ HasBadType =>
          /\ pc # "GetSubTree"
          /\ ~anyGetAll
          /\ pc = "exit" => exitStatus = EXIT_FAILURE
    /\ pc = "GetSubTree" =>
          /\ ~HasBadType
          /\ root_path = IF operands = <<>> THEN SENSORS_PATH
                         ELSE SENSORS_PATH \o <<SLASH>> \o operands[1]

\* a watch command line with the sensor type "f-2" has ended in a failure
C21_Witness ==
    /\ pc = "exit"
    /\ exitStatus = EXIT_FAILURE
    /\ watch_mode
    /\ ~showhelp
    /\ HasBadType
    /\ out = <<Stderr("Invalid sensor type is specified!", <<>>)>>

----------------------------------------------------------------------------
(* The two revisions of the comparator *)

\* where the lock-step scan of a and b from positions i and j is decided at
\* a position at which exactly one of the two has a digit: the side that has
\* it, "a" or "b"; "none" when the scan is decided otherwise
RECURSIVE DigitSideFrom(_, _, _, _)
DigitSideFrom(a, b, i, j) ==
    IF i > Len(a) \/ j > Len(b) THEN "none"
    ELSE IF IsDigit(a[i]) /\ IsDigit(b[j])
         THEN IF strtoul(a, i).val # strtoul(b, j).val THEN "none"
              ELSE DigitSideFrom(a, b, strtoul(a, i).end, strtoul(b, j).end)
    ELSE IF IsDigit(a[i]) THEN "a"
    ELSE IF IsDigit(b[j]) THEN "b"
    ELSE IF a[i] # b[j] THEN "none"
    ELSE DigitSideFrom(a, b, i + 1, j + 1)

DigitSide(a, b) == DigitSideFrom(a, b, 1, 1)

\* C22: CmpSensorsName and the earlier cmp_sensors_name give the same result
\* for every pair that is not decided where exactly one side has a digit,
\* and opposite results for every pair decided there: the current revision
\* puts the side with the digit first, the earlier one last.
C22_RevisionsDifferInTieBreakOnly ==
    (cmpPc = "done") =>
        CASE DigitSide(cmpA, cmpB) = "a" ->
                 cmpRes /\ ~cmp_sensors_name(cmpA, cmpB)
          [] DigitSide(cmpA, cmpB) = "b" ->
                 ~cmpRes /\ cmp_sensors_name(cmpA, cmpB)
          [] OTHER -> cmp_sensors_name(cmpA, cmpB) = cmpRes

\* "a1" against "aa" and the like: decided at a one-sided digit behind a
\* common prefix, the current revision puts the digit side first
C22_Witness ==
    /\ cmpPc = "done"
    /\ DigitSide(cmpA, cmpB) = "a"
    /\ Len(cmpA) >= 2
    /\ Len(cmpB) >= 2
    /\ cmpA[1] = cmpB[1]
    /\ IsDigit(cmpA[2])
    /\ ~IsDigit(cmpB[2])
    /\ cmpRes
    /\ ~cmp_sensors_name(cmpA, cmpB)

----------------------------------------------------------------------------
(* Threshold columns *)

\* every numeric field of the reading is an int64 mantissa
AllMantissas(p) == \A name \in NumericNames : Present(p, name) => p[name].t = "int64"

\* the reading with its WarningLow replaced
WithWarningLow(p, val) == ("WarningLow" :> val) @@ Without(p, {"WarningLow"})

\* the row of the current revision: each threshold column shows the field
\* of its meaning, and another WarningLow changes the LNC column only
CurrentColumns ==
    /\ row.lc = getValue(reading, "CriticalLow")
    /\ row.lnc = getValue(reading, "WarningLow")
    /\ row.unc = getValue(reading, "WarningHigh")
    /\ row.uc = getValue(reading, "CriticalHigh")
    /\ row.nr = getValue(reading, "FatalHigh")
    /\ \A val \in {IntVal(1234), IntVal(-7)} :
          LET q == WithWarningLow(reading, val)
          IN  /\ <<criticalLow(q), warningHigh(q), criticalHigh(q), fatalHigh(q)>>
                    = <<row.lc, row.unc, row.uc, row.nr>>
              /\ <<status(q), value(q), unit(q)>> = <<row.status, row.value, row.unit>>
              /\ (warningLow(q) # row.lnc) = (getValue(q, "WarningLow") # getValue(reading, "WarningLow"))

\* the row of the earlier revision: the same for its four columns
EarlierColumns ==
    LET r == print_sensor_data(reading)
    IN  /\ r.lc = get_prop_value(reading, "CriticalLow")
        /\ r.lnc = get_prop_value(reading, "WarningLow")
        /\ r.unc = get_prop_value(reading, "WarningHigh")
        /\ r.uc = get_prop_value(reading, "CriticalHigh")

\* C23: in every revision of the renderer the LC column shows CriticalLow,
\* LNC WarningLow, UNC WarningHigh, UC CriticalHigh (and NR FatalHigh where
\* there is one), so that another WarningLow changes the LNC column and no
\* other.
C23_ThresholdColumnsInEveryRevision ==
    (fmtPc = "done") =>
        /\ CurrentColumns
        /\ AllMantissas(reading) => EarlierColumns

\* C23, for the current revision alone
C23_ThresholdColumnsCurrent == (fmtPc = "done") => CurrentColumns

----------------------------------------------------------------------------
(* Equivalent identifiers *)

\* C24: two different identifiers are never equivalent: exactly one of
\* cmp(a, b) and cmp(b, a) is true, so that the Objects map keeps an entry
\* for each of them; also when they differ in leading zeros only.
C24_DistinctNeverEquivalent ==
    (cmpPc = "done" /\ cmpA # cmpB)
        => (cmpRes # CmpSensorsName(cmpB, cmpA))

\* C24, for what does hold: two different identifiers are equivalent only
\* when they are the same but for the spelling of digit runs that parse to
\* the same unsigned long, and never both before each other.
C24_EquivalentOnlyBySpelling ==
    (cmpPc = "done" /\ cmpA # cmpB)
        => /\ ~(cmpRes /\ CmpSensorsName(cmpB, cmpA))
           /\ (~cmpRes /\ ~CmpSensorsName(cmpB, cmpA))
                 => \E k \in 1..Len(cmpA) : IsDigit(cmpA[k])

----------------------------------------------------------------------------
(* Categories of a listing *)

\* the listing has ended and every fetch of it succeeded
ListingComplete ==
    ListingRan /\ pc = "exit" /\ \A i \in 1..Len(out) : ~FailedGetAllAt(i)

\* the category segments of the identifiers that discovery stored
Categories == {Category(objects[n].path) : n \in 1..Len(objects)}

\* C25: in a listing whose fetches all succeed the rows of a category are
\* contiguous, so each category among the discovered identifiers gets
\* exactly one banner, also when categories contain digits.
C25_OneBannerPerCategory ==
    ListingComplete =>
        /\ Len(BannersOf(out)) = Cardinality(Categories)
        /\ \A c \in Categories :
              Cardinality({i \in 1..Len(out) : out[i] = Banner(c)}) = 1

\* C25, for what does hold: when no two categories of the listing are
\* equivalent under CmpSensorsName, each gets exactly one banner.
C25_OneBannerUnlessEquivalentCategories ==
    (ListingComplete /\ \A c, d \in Categories : c # d => ~Equiv(c, d))
        => /\ Len(BannersOf(out)) = Cardinality(Categories)
           /\ \A c \in Categories :
                 Cardinality({i \in 1..Len(out) : out[i] = Banner(c)}) = 1

====
